---- MODULE Spec2Model ----
(***************************************************************************)
(* RecapKit: the deterministic notes-to-artifacts pipeline (bullet         *)
(* segmentation, action-item extraction, issue detection, formatters) and  *)
(* the /api/generate boundary, modelled from the TypeScript sources.       *)
(*                                                                         *)
(* A JavaScript string is a sequence of characters; a character is a       *)
(* one-character TLA+ string.  The three non-ASCII characters the code     *)
(* names are written "NBSP" (U+00A0), "BULLET" (U+2022), "MIDDOT" (U+00B7).*)
(***************************************************************************)
EXTENDS Naturals, Integers, Sequences, FiniteSets, TLC

(* ------------------------------------------------------------------------ *)
(* Characters and the JavaScript string primitives the code uses            *)
(* ------------------------------------------------------------------------ *)

UpperChars == <<"A","B","C","D","E","F","G","H","I","J","K","L","M",
                "N","O","P","Q","R","S","T","U","V","W","X","Y","Z">>
LowerChars == <<"a","b","c","d","e","f","g","h","i","j","k","l","m",
                "n","o","p","q","r","s","t","u","v","w","x","y","z">>
DigitChars == {"0","1","2","3","4","5","6","7","8","9"}

UpperSet == {UpperChars[k] : k \in 1..26}
LowerSet == {LowerChars[k] : k \in 1..26}
SpaceChars == {" ", "\t", "\n", "\r", "NBSP"}

\* \s of a regular expression, and what String.prototype.trim removes
IsSpace(c) == c \in SpaceChars
IsUpper(c) == c \in UpperSet
IsLower(c) == c \in LowerSet
IsAlpha(c) == IsUpper(c) \/ IsLower(c)
IsDigit(c) == c \in DigitChars
\* \w of a regular expression
IsWordChar(c) == IsAlpha(c) \/ IsDigit(c) \/ c = "_"

LowerMap == [c \in UpperSet |-> LowerChars[CHOOSE k \in 1..26 : UpperChars[k] = c]]
LowerOf(c) == IF IsUpper(c) THEN LowerMap[c] ELSE c

\* String.prototype.toLowerCase
toLowerCase(s) == <<>> \o [i \in 1..Len(s) |-> LowerOf(s[i])]

\* String.prototype.trim
trim(s) ==
  IF \A i \in 1..Len(s) : IsSpace(s[i]) THEN <<>>
  ELSE LET first == CHOOSE i \in 1..Len(s) :
                      ~IsSpace(s[i]) /\ \A j \in 1..(i-1) : IsSpace(s[j])
           last  == CHOOSE i \in 1..Len(s) :
                      ~IsSpace(s[i]) /\ \A j \in (i+1)..Len(s) : IsSpace(s[j])
       IN SubSeq(s, first, last)

\* s.substring(i - 1): the characters from position i on
From(s, i) == SubSeq(s, i, Len(s))

\* needle occurs in hay at position i
MatchAt(hay, needle, i) ==
  /\ i >= 1
  /\ i + Len(needle) - 1 <= Len(hay)
  /\ \A k \in 1..Len(needle) : hay[i + k - 1] = needle[k]

\* String.prototype.includes
includes(hay, needle) == \E i \in 1..(Len(hay) + 1) : MatchAt(hay, needle, i)

\* String.prototype.startsWith
startsWith(s, prefix) == MatchAt(s, prefix, 1)

\* the least member of positions (all >= 1) that is >= lo, 0 when there is none
firstAtOrAfter(positions, lo) ==
  LET later == {i \in positions : i >= lo}
  IN IF later = {} THEN 0 ELSE CHOOSE i \in later : \A j \in later : i <= j

\* Array.prototype.join
RECURSIVE join(_, _)
join(parts, sep) ==
  IF parts = <<>> THEN <<>>
  ELSE IF Len(parts) = 1 THEN parts[1]
  ELSE parts[1] \o sep \o join(Tail(parts), sep)

\* Array.prototype.filter(Boolean) on strings: the empty string is falsy
NonEmpty(s) == s # <<>>
filterBoolean(parts) == SelectSeq(parts, NonEmpty)

\* Array.prototype.slice(0, n) with the end left out
sliceAll(seq, n) == seq

\* Array.prototype.slice(0, n): a negative n counts from the end
slice0(seq, n) ==
  SubSeq(seq, 1, IF n < 0 THEN (IF Len(seq) + n > 0 THEN Len(seq) + n ELSE 0)
                 ELSE IF n < Len(seq) THEN n ELSE Len(seq))

\* String.prototype.split on a separator of sepLen characters that matches at
\* the given positions (leftmost first, matches do not overlap)
RECURSIVE splitFrom(_, _, _, _)
splitFrom(s, start, sepLen, matches) ==
  LET k == firstAtOrAfter(matches, start)
  IN IF k = 0 THEN <<From(s, start)>>
     ELSE <<SubSeq(s, start, k - 1)>> \o splitFrom(s, k + sepLen, sepLen, matches)

IsNewlineAt(s, i) == s[i] = "\n"
\* s.split("\n")
splitLines(s) == splitFrom(s, 1, 1, {i \in 1..Len(s) : IsNewlineAt(s, i)})

(* ------------------------------------------------------------------------ *)
(* Bullet segmenter: normalizeLine, splitIntoSentences, toBullets           *)
(* ------------------------------------------------------------------------ *)

\* s.replace(/ /g, " ").replace(/[ \t]+/g, " ").trim()
normalizeLine(s) ==
  LET a == [i \in 1..Len(s) |-> IF s[i] = "NBSP" THEN " " ELSE s[i]]
      IsBlank(c) == c \in {" ", "\t"}
      tagged == [i \in 1..Len(a) |->
                   IF IsBlank(a[i])
                   THEN (IF i > 1 /\ IsBlank(a[i-1]) THEN "" ELSE " ")
                   ELSE a[i]]
      Kept(c) == c # ""
  IN trim(SelectSeq(tagged, Kept))

\* the end of the run of whitespace that starts at position i
SpaceRunEnd(s, i) ==
  CHOOSE e \in (i-1)..Len(s) :
    (e = Len(s) \/ ~IsSpace(s[e+1])) /\ \A j \in i..e : IsSpace(s[j])

\* /(?<=[.!?])\s+(?=[A-Z0-9(])/ matches the whitespace run starting at i
IsSentenceBreakAt(s, i) ==
  /\ i > 1
  /\ s[i-1] \in {".", "!", "?"}
  /\ IsSpace(s[i])
  /\ LET e == SpaceRunEnd(s, i)
     IN e < Len(s) /\ (IsUpper(s[e+1]) \/ IsDigit(s[e+1]) \/ s[e+1] = "(")

\* text.split(/(?<=[.!?])\s+(?=[A-Z0-9(])/), from position start on
RECURSIVE splitSentenceParts(_, _)
splitSentenceParts(s, start) ==
  LET k == firstAtOrAfter({i \in 1..Len(s) : IsSentenceBreakAt(s, i)}, start)
  IN IF k = 0 THEN <<From(s, start)>>
     ELSE <<SubSeq(s, start, k - 1)>> \o splitSentenceParts(s, SpaceRunEnd(s, k) + 1)

mapNormalizeLine(parts) == [i \in 1..Len(parts) |-> normalizeLine(parts[i])]

splitIntoSentences(paragraph) ==
  LET text == trim(paragraph)
  IN IF text = <<>> THEN <<>>
     ELSE filterBoolean(mapNormalizeLine(splitSentenceParts(text, 1)))

\* text.replace(/\r\n/g, "\n")
replaceCRLF(s) ==
  LET tagged == [i \in 1..Len(s) |->
                   IF s[i] = "\r" /\ i < Len(s) /\ s[i+1] = "\n" THEN "" ELSE s[i]]
      Kept(c) == c # ""
  IN SelectSeq(tagged, Kept)

IsGlyphAt(s, i) == s[i] \in {"BULLET", "MIDDOT"}
IsDashSepAt(s, i) == i + 2 <= Len(s) /\ IsSpace(s[i]) /\ s[i+1] = "-" /\ IsSpace(s[i+2])
IsPipeSepAt(s, i) == i + 2 <= Len(s) /\ IsSpace(s[i]) /\ s[i+1] = "|" /\ IsSpace(s[i+2])

splitGlyphs(p) == splitFrom(p, 1, 1, {i \in 1..Len(p) : IsGlyphAt(p, i)})
splitDashes(p) == splitFrom(p, 1, 3, {i \in 1..Len(p) : IsDashSepAt(p, i)})
splitPipes(p)  == splitFrom(p, 1, 3, {i \in 1..Len(p) : IsPipeSepAt(p, i)})

RECURSIVE flatMapSplitDashes(_)
flatMapSplitDashes(parts) ==
  IF parts = <<>> THEN <<>> ELSE splitDashes(Head(parts)) \o flatMapSplitDashes(Tail(parts))

RECURSIVE flatMapSplitPipes(_)
flatMapSplitPipes(parts) ==
  IF parts = <<>> THEN <<>> ELSE splitPipes(Head(parts)) \o flatMapSplitPipes(Tail(parts))

\* one line of the structured path: its separable parts, or the line itself
lineParts(line) ==
  LET parts == filterBoolean(mapNormalizeLine(
                   flatMapSplitPipes(flatMapSplitDashes(splitGlyphs(line)))))
  IN IF parts # <<>> THEN parts ELSE <<line>>

RECURSIVE flatMapLineParts(_)
flatMapLineParts(lines) ==
  IF lines = <<>> THEN <<>> ELSE lineParts(Head(lines)) \o flatMapLineParts(Tail(lines))

\* the length of the leading marker (\*|-|BULLET|\d+\)|\d+\.|\[ \]|\[x\]), 0 if none
markerLen(s) ==
  LET d == CHOOSE n \in 0..Len(s) :  \* the leading digits
             (n = Len(s) \/ ~IsDigit(s[n+1])) /\ \A j \in 1..n : IsDigit(s[j])
  IN IF s = <<>> THEN 0
     ELSE IF s[1] \in {"*", "-", "BULLET"} THEN 1
     ELSE IF d >= 1 /\ d < Len(s) /\ s[d+1] \in {")", "."} THEN d + 1
     ELSE IF startsWith(s, <<"[", " ", "]">>) \/ startsWith(s, <<"[", "x", "]">>) THEN 3
     ELSE 0

\* the marker stripped whether or not whitespace follows it (\s* for \s+)
stripMarkerNoSpace(s) ==
  LET m == markerLen(s)
  IN IF m > 0 THEN From(s, SpaceRunEnd(s, m + 1) + 1) ELSE s

\* s.replace(/^(\*|-|BULLET|\d+\)|\d+\.|\[ \]|\[x\])\s+/, "")
stripMarker(s) ==
  LET m == markerLen(s)
  IN IF m > 0 /\ m < Len(s) /\ IsSpace(s[m+1])
     THEN From(s, SpaceRunEnd(s, m + 1) + 1)
     ELSE s

\* the loop over cleaned: keep s unless its lower-cased key was seen
RECURSIVE dedupFrom(_, _)
dedupFrom(rest, seen) ==
  IF rest = <<>> THEN <<>>
  ELSE LET key == toLowerCase(Head(rest))
       IN IF key \in seen THEN dedupFrom(Tail(rest), seen)
          ELSE <<Head(rest)>> \o dedupFrom(Tail(rest), seen \cup {key})

\* a dedup keyed on the string itself (no toLowerCase)
dedupeCaseSensitive(cleaned0) ==
  LET RECURSIVE go(_, _)
      go(rest, seen) ==
        IF rest = <<>> THEN <<>>
        ELSE IF Head(rest) \in seen THEN go(Tail(rest), seen)
        ELSE <<Head(rest)>> \o go(Tail(rest), seen \cup {Head(rest)})
  IN go(cleaned0, {})

\* a dedup that keeps the last occurrence of a key instead of the first
dedupeKeepLast(cleaned0) ==
  LET IsLast(i) == \A j \in (i+1)..Len(cleaned0) :
                     toLowerCase(cleaned0[j]) # toLowerCase(cleaned0[i])
      tagged == [i \in 1..Len(cleaned0) |-> IF IsLast(i) THEN cleaned0[i] ELSE <<>>]
  IN filterBoolean(tagged)

dedupe(cleaned0) == dedupFrom(cleaned0, {})

SingleBlockMinChars == 80

rawOf(txt) == trim(replaceCRLF(txt))

linesOf(raw) == filterBoolean(mapNormalizeLine(splitLines(raw)))

isSingleBlock(raw) == Len(linesOf(raw)) <= 1 /\ Len(raw) > SingleBlockMinChars

candidatesOf(raw) ==
  LET lines == linesOf(raw)
  IN IF Len(lines) <= 1 /\ Len(raw) > SingleBlockMinChars
     THEN splitIntoSentences(raw)
     ELSE flatMapLineParts(lines)

mapStripMarker(parts) == [i \in 1..Len(parts) |-> stripMarker(parts[i])]

cleanedOf(raw) ==
  filterBoolean(mapNormalizeLine(mapStripMarker(candidatesOf(raw))))

\* toBullets with its intermediate list: [cleaned, deduped]
toBulletsSteps(txt) ==
  LET raw == rawOf(txt)
  IN IF raw = <<>> THEN [cleaned |-> <<>>, deduped |-> <<>>]
     ELSE LET c == cleanedOf(raw) IN [cleaned |-> c, deduped |-> dedupe(c)]

toBullets(txt) == toBulletsSteps(txt).deduped

(* ------------------------------------------------------------------------ *)
(* Action-item extractor of web/lib/recap.ts: parseBullets, parseActionItems *)
(* ------------------------------------------------------------------------ *)

\* an optional value (x?: string): None is undefined, Some(x) a defined x
None == <<>>
Some(x) == <<x>>
IsSome(o) == o # <<>>
ValueOf(o) == o[1]

mapTrim(parts) == [i \in 1..Len(parts) |-> trim(parts[i])]

\* raw.split("\n").map((l) => l.trim()).filter(Boolean)
normalizeLines(raw) == filterBoolean(mapTrim(splitLines(raw)))

\* the number of leading digits of s
leadingDigits(s) ==
  CHOOSE n \in 0..Len(s) :
    (n = Len(s) \/ ~IsDigit(s[n+1])) /\ \A j \in 1..n : IsDigit(s[j])

\* the length of the leading marker (\*|-|BULLET|\d+[.)]), 0 if none
bulletMarkerLen(l) ==
  LET d == leadingDigits(l)
  IN IF l = <<>> THEN 0
     ELSE IF l[1] \in {"*", "-", "BULLET"} THEN 1
     ELSE IF d >= 1 /\ d < Len(l) /\ l[d+1] \in {".", ")"} THEN d + 1
     ELSE 0

\* l.replace(/^(\*|-|BULLET|\d+[.)])\s+/, "").trim()
stripBulletMarker(l) ==
  LET m == bulletMarkerLen(l)
  IN trim(IF m > 0 /\ m < Len(l) /\ IsSpace(l[m+1])
          THEN From(l, SpaceRunEnd(l, m + 1) + 1)
          ELSE l)

parseBullets(rawNotes) ==
  LET lines == normalizeLines(rawNotes)
  IN [i \in 1..Len(lines) |-> stripBulletMarker(lines[i])]

\* \b of a regular expression, between positions i - 1 and i
WordBoundaryAt(s, i) ==
  (i > 1 /\ i - 1 <= Len(s) /\ IsWordChar(s[i-1])) # (i >= 1 /\ i <= Len(s) /\ IsWordChar(s[i]))

\* needle occurs in hay at position i, letters compared without case (flag i)
MatchAtCI(hay, needle, i) ==
  /\ i >= 1
  /\ i + Len(needle) - 1 <= Len(hay)
  /\ \A k \in 1..Len(needle) : LowerOf(hay[i + k - 1]) = LowerOf(needle[k])

\* \bword\b matches at position i (flag i)
WordAt(s, word, i) ==
  MatchAtCI(s, word, i) /\ WordBoundaryAt(s, i) /\ WordBoundaryAt(s, i + Len(word))

\* new RegExp(`\\b${escapeRegExp(wordLower)}\\b`, "i").test(haystackLower);
\* the words handed to it hold no character escapeRegExp changes
includesWord(haystackLower, wordLower) ==
  \E i \in 1..Len(haystackLower) : WordAt(haystackLower, wordLower, i)

phraseVerbs == <<<<"f","o","l","l","o","w"," ","u","p">>, <<"t","o","u","c","h"," ","b","a","s","e">>>>

singleWordVerbs ==
  << <<"s","e","n","d">>, <<"s","h","a","r","e">>, <<"s","c","h","e","d","u","l","e">>, <<"b","o","o","k">>, <<"c","o","n","f","i","r","m">>, <<"r","e","v","i","e","w">>,
     <<"u","p","d","a","t","e">>, <<"f","i","x">>, <<"c","r","e","a","t","e">>, <<"s","h","i","p">>, <<"d","e","l","i","v","e","r">>, <<"e","m","a","i","l">>,
     <<"c","a","l","l">>, <<"c","o","n","t","a","c","t">> >>

\* looksLikeAction that takes a single-word verb anywhere in the bullet
looksLikeActionBySubstring(b) ==
  LET lower == toLowerCase(b)
  IN \/ \E k \in 1..Len(phraseVerbs) : includes(lower, phraseVerbs[k])
     \/ \E k \in 1..Len(singleWordVerbs) : includes(lower, singleWordVerbs[k])

\* the filter of parseActionItems: does bullet b look like an action
looksLikeAction(b) ==
  LET lower == toLowerCase(b)
  IN \/ \E k \in 1..Len(phraseVerbs) : includes(lower, phraseVerbs[k])
     \/ \E k \in 1..Len(singleWordVerbs) : includesWord(lower, singleWordVerbs[k])

\* the end of the greedy run of characters of chars that starts at position i
\* and is at most maxLen long (i - 1 when the run is empty)
runEnd(s, i, chars, maxLen) ==
  LET top == IF i - 1 + maxLen < Len(s) THEN i - 1 + maxLen ELSE Len(s)
  IN CHOOSE e \in (i-1)..top :
       (e = top \/ s[e+1] \notin chars) /\ \A j \in i..e : s[j] \in chars

\* /\b\d{4}-\d{2}-\d{2}\b/ matches at position i
IsoDateAt(s, i) ==
  /\ i + 9 <= Len(s)
  /\ \A k \in {0, 1, 2, 3, 5, 6, 8, 9} : IsDigit(s[i+k])
  /\ s[i+4] = "-" /\ s[i+7] = "-"
  /\ WordBoundaryAt(s, i) /\ WordBoundaryAt(s, i + 10)

dueTokens == << <<"t","o","d","a","y">>, <<"t","o","m","o","r","r","o","w">>, <<"t","h","i","s"," ","w","e","e","k">>, <<"n","e","x","t"," ","w","e","e","k">>,
                <<"e","n","d"," ","o","f"," ","d","a","y">>, <<"e","o","d">>, <<"e","o","w">> >>

weekdayStems == << <<"m","o","n">>, <<"t","u","e">>, <<"w","e","d">>, <<"t","h","u">>, <<"f","r","i">>, <<"s","a","t">>, <<"s","u","n">> >>

\* the length of the match of /\b(mon|tue|wed|thu|fri|sat|sun)(day)?\b/i at
\* position i, 0 when it does not match there
weekdayLenAt(s, i) ==
  IF ~(WordBoundaryAt(s, i) /\ \E k \in 1..Len(weekdayStems) : MatchAtCI(s, weekdayStems[k], i))
  THEN 0
  ELSE IF MatchAtCI(s, <<"d","a","y">>, i + 3) /\ WordBoundaryAt(s, i + 6) THEN 6
  ELSE IF WordBoundaryAt(s, i + 3) THEN 3
  ELSE 0

extractDue(t) ==
  LET lower == toLowerCase(t)
      iso == firstAtOrAfter({i \in 1..Len(t) : IsoDateAt(t, i)}, 1)
      tokens == {k \in 1..Len(dueTokens) : includes(lower, dueTokens[k])}
      weekday == firstAtOrAfter({i \in 1..Len(t) : weekdayLenAt(t, i) > 0}, 1)
  IN IF iso # 0 THEN Some(SubSeq(t, iso, iso + 9))
     ELSE IF tokens # {} THEN Some(dueTokens[firstAtOrAfter(tokens, 1)])
     ELSE IF weekday # 0 THEN Some(SubSeq(t, weekday, weekday + weekdayLenAt(t, weekday) - 1))
     ELSE None

WordCharSet == UpperSet \cup LowerSet \cup DigitChars \cup {"_"}
\* [a-zA-Z\s'.-]
OwnerNameChars == UpperSet \cup LowerSet \cup SpaceChars \cup {"'", ".", "-"}
\* [a-zA-Z'.-]
WillNameChars == UpperSet \cup LowerSet \cup {"'", ".", "-"}

MaxOwnerTail == 40
MaxWillTail == 20

\* /@([a-zA-Z0-9_]+)/ matches at position i
AtHandleAt(s, i) == s[i] = "@" /\ i < Len(s) /\ IsWordChar(s[i+1])

\* where the name captured by /\b<tag>\s*([a-zA-Z][a-zA-Z\s'.-]{1,40})/i starts
\* when the tag is at position i
tagNameStart(s, tag, i) == SpaceRunEnd(s, i + Len(tag)) + 1

\* /\b<tag>\s*([a-zA-Z][a-zA-Z\s'.-]{1,40})/i matches at position i
TagNameAt(s, tag, i) ==
  /\ WordBoundaryAt(s, i)
  /\ MatchAtCI(s, tag, i)
  /\ LET j == tagNameStart(s, tag, i)
     IN j <= Len(s) /\ IsAlpha(s[j]) /\ runEnd(s, j + 1, OwnerNameChars, MaxOwnerTail) >= j + 1

\* the name such a match captures, trimmed; None when the tag matches nowhere
tagName(s, tag) ==
  LET i == firstAtOrAfter({p \in 1..Len(s) : TagNameAt(s, tag, p)}, 1)
      j == tagNameStart(s, tag, i)
  IN IF i = 0 THEN None
     ELSE Some(trim(SubSeq(s, j, runEnd(s, j + 1, OwnerNameChars, MaxOwnerTail))))

\* the end of the name of /^([A-Z][a-zA-Z'.-]{1,20})\s+will\b/, 0 when no match
willNameEnd(s) ==
  IF s = <<>> \/ ~IsUpper(s[1]) THEN 0
  ELSE LET e == runEnd(s, 2, WillNameChars, Len(s))
           w == SpaceRunEnd(s, e + 1) + 1
       IN IF /\ e >= 2
             /\ e - 1 <= MaxWillTail
             /\ e < Len(s)
             /\ IsSpace(s[e+1])
             /\ MatchAt(s, <<"w","i","l","l">>, w)
             /\ WordBoundaryAt(s, w + 4)
          THEN e ELSE 0

\* extractOwner that tries the leading "<Name> will" first
extractOwnerWillFirst(t) ==
  LET at == firstAtOrAfter({i \in 1..Len(t) : AtHandleAt(t, i)}, 1)
      lower == toLowerCase(t)
      ownerTag == tagName(t, <<"o","w","n","e","r",":">>)
      assigned == tagName(t, <<"a","s","s","i","g","n","e","d"," ","t","o">>)
      will == willNameEnd(t)
  IN IF will # 0 THEN Some(trim(SubSeq(t, 1, will)))
     ELSE IF at # 0 THEN Some(SubSeq(t, at + 1, runEnd(t, at + 1, WordCharSet, Len(t))))
     ELSE IF IsSome(ownerTag) THEN ownerTag
     ELSE IF IsSome(assigned) THEN assigned
     ELSE IF includesWord(lower, <<"i"," ","w","i","l","l">>) THEN Some(<<"M","e">>)
     ELSE IF includesWord(lower, <<"w","e"," ","w","i","l","l">>) THEN Some(<<"W","e">>)
     ELSE None

extractOwner(t) ==
  LET at == firstAtOrAfter({i \in 1..Len(t) : AtHandleAt(t, i)}, 1)
      lower == toLowerCase(t)
      ownerTag == tagName(t, <<"o","w","n","e","r",":">>)
      assigned == tagName(t, <<"a","s","s","i","g","n","e","d"," ","t","o">>)
      will == willNameEnd(t)
  IN IF at # 0 THEN Some(SubSeq(t, at + 1, runEnd(t, at + 1, WordCharSet, Len(t))))
     ELSE IF IsSome(ownerTag) THEN ownerTag
     ELSE IF IsSome(assigned) THEN assigned
     ELSE IF will # 0 THEN Some(trim(SubSeq(t, 1, will)))
     ELSE IF includesWord(lower, <<"i"," ","w","i","l","l">>) THEN Some(<<"M","e">>)
     ELSE IF includesWord(lower, <<"w","e"," ","w","i","l","l">>) THEN Some(<<"W","e">>)
     ELSE None

\* . of a regular expression: any character but a line terminator
IsLineTerminator(c) == c \in {"\n", "\r"}

\* where the capture of /\bnote:\s*(.+)$/i starts when "note:" is at position i,
\* 0 when the expression does not match there
noteStart(s, i) ==
  IF ~(WordBoundaryAt(s, i) /\ MatchAtCI(s, <<"n","o","t","e",":">>, i)) \/ i + 5 > Len(s) THEN 0
  ELSE LET e == SpaceRunEnd(s, i + 5)
           j == IF e = Len(s) THEN Len(s) ELSE e + 1
       IN IF \A k \in j..Len(s) : ~IsLineTerminator(s[k]) THEN j ELSE 0

\* /\(([^)]+)\)\s*$/ matches at position i: the index of its ")", 0 when not
parenClose(s, i) ==
  IF s[i] # "(" THEN 0
  ELSE LET j == firstAtOrAfter({p \in 1..Len(s) : s[p] = ")"}, i + 1)
       IN IF j >= i + 2 /\ \A k \in (j+1)..Len(s) : IsSpace(s[k]) THEN j ELSE 0

extractNotes(original) ==
  LET dash == firstAtOrAfter({i \in 1..Len(original) : MatchAt(original, <<" ","-"," ">>, i)}, 1)
      note == firstAtOrAfter({i \in 1..Len(original) : noteStart(original, i) > 0}, 1)
      paren == firstAtOrAfter({i \in 1..Len(original) : parenClose(original, i) > 0}, 1)
  IN IF dash # 0 THEN Some(trim(From(original, dash + 3)))
     ELSE IF note # 0 THEN Some(trim(From(original, noteStart(original, note))))
     ELSE IF paren # 0
          THEN Some(trim(SubSeq(original, paren + 1, parenClose(original, paren) - 1)))
     ELSE None

\* the ActionItem built from a qualifying bullet b
actionItemOf(b) ==
  LET c == trim(b)
  IN [text |-> c, owner |-> extractOwner(c), due |-> extractDue(c), notes |-> extractNotes(c)]

parseActionItems(bs) ==
  LET qualifying == SelectSeq(bs, looksLikeAction)
  IN [i \in 1..Len(qualifying) |-> actionItemOf(qualifying[i])]

(* ------------------------------------------------------------------------ *)
(* web/lib/recap.ts: detectActionIssues, formatActionItems, makeSummary      *)
(* ------------------------------------------------------------------------ *)

\* Boolean(x) of an optional string: defined and not ""
Truthy(o) == IsSome(o) /\ ValueOf(o) # <<>>

\* item.text.length < 20
VagueBelowChars == 20

\* /\b(mon|tue|wed|thu|fri|sat|sun)\b/i.test(s)
hasWeekdayStem(s) ==
  \E i \in 1..Len(s) : \E k \in 1..Len(weekdayStems) : WordAt(s, weekdayStems[k], i)

\* hasOwner with "i will" and "we will" looked up as plain substrings
hasOwnerBySubstring(item) ==
  LET textLower == toLowerCase(item.text)
  IN \/ Truthy(item.owner)
     \/ includes(textLower, <<"@">>)
     \/ includes(textLower, <<"o","w","n","e","r",":">>)
     \/ includes(textLower, <<"a","s","s","i","g","n","e","d"," ","t","o">>)
     \/ includes(textLower, <<"i"," ","w","i","l","l">>)
     \/ includes(textLower, <<"w","e"," ","w","i","l","l">>)

hasOwner(item) ==
  LET textLower == toLowerCase(item.text)
  IN \/ Truthy(item.owner)
     \/ includes(textLower, <<"@">>)
     \/ includes(textLower, <<"o","w","n","e","r",":">>)
     \/ includes(textLower, <<"a","s","s","i","g","n","e","d"," ","t","o">>)
     \/ includesWord(textLower, <<"i"," ","w","i","l","l">>)
     \/ includesWord(textLower, <<"w","e"," ","w","i","l","l">>)

hasDue(item) ==
  LET textLower == toLowerCase(item.text)
  IN \/ Truthy(item.due)
     \/ includes(textLower, <<"t","o","d","a","y">>)
     \/ includes(textLower, <<"t","o","m","o","r","r","o","w">>)
     \/ includes(textLower, <<"n","e","x","t"," ","w","e","e","k">>)
     \/ hasWeekdayStem(item.text)
     \/ \E i \in 1..Len(item.text) : IsoDateAt(item.text, i)

vague(item) ==
  LET textLower == toLowerCase(item.text)
  IN \/ Len(item.text) < VagueBelowChars
     \/ includes(textLower, <<"l","o","o","k"," ","i","n","t","o">>)
     \/ includes(textLower, <<"c","h","e","c","k"," ","o","n">>)
     \/ includes(textLower, <<"t","o","u","c","h"," ","b","a","s","e">>)

\* `<label>: "${item.text}"`
issueMessage(label, item) == label \o <<":"," ","\"">> \o item.text \o <<"\"">>

\* issuesOf that pushes no further issue once it has pushed one
issuesOfFirstOnly(item) ==
  IF ~hasOwner(item)
  THEN <<[type |-> "missingOwner", message |-> issueMessage(<<"M","i","s","s","i","n","g"," ","o","w","n","e","r">>, item)]>>
  ELSE IF ~hasDue(item)
  THEN <<[type |-> "missingDueDate", message |-> issueMessage(<<"M","i","s","s","i","n","g"," ","d","u","e"," ","d","a","t","e">>, item)]>>
  ELSE IF vague(item)
  THEN <<[type |-> "vague", message |-> issueMessage(<<"P","o","s","s","i","b","l","y"," ","v","a","g","u","e">>, item)]>>
  ELSE <<>>

\* the issues one pass of the loop pushes for item
issuesOf(item) ==
  (IF ~hasOwner(item)
   THEN <<[type |-> "missingOwner", message |-> issueMessage(<<"M","i","s","s","i","n","g"," ","o","w","n","e","r">>, item)]>>
   ELSE <<>>)
  \o (IF ~hasDue(item)
      THEN <<[type |-> "missingDueDate", message |-> issueMessage(<<"M","i","s","s","i","n","g"," ","d","u","e"," ","d","a","t","e">>, item)]>>
      ELSE <<>>)
  \o (IF vague(item)
      THEN <<[type |-> "vague", message |-> issueMessage(<<"P","o","s","s","i","b","l","y"," ","v","a","g","u","e">>, item)]>>
      ELSE <<>>)

RECURSIVE detectActionIssues(_)
detectActionIssues(items) ==
  IF items = <<>> THEN <<>>
  ELSE issuesOf(Head(items)) \o detectActionIssues(Tail(items))

\* String(n) of a natural number
DigitOf == <<"0", "1", "2", "3", "4", "5", "6", "7", "8", "9">>
RECURSIVE numberToString(_)
numberToString(n) ==
  IF n < 10 THEN <<DigitOf[n + 1]>>
  ELSE numberToString(n \div 10) \o <<DigitOf[(n % 10) + 1]>>

\* the lines pushed for the item at index idx (counted from 1)
itemLines(item, idx) ==
  << numberToString(idx) \o <<"."," ">> \o item.text,
     <<" "," "," ","-"," ","O","w","n","e","r",":"," ">> \o (IF Truthy(item.owner) THEN ValueOf(item.owner) ELSE <<"U","n","a","s","s","i","g","n","e","d">>),
     <<" "," "," ","-"," ","D","u","e",":"," ">> \o (IF Truthy(item.due) THEN ValueOf(item.due) ELSE <<"N","o"," ","d","u","e"," ","d","a","t","e">>) >>
  \o (IF Truthy(item.notes) THEN <<<<" "," "," ","-"," ","N","o","t","e","s",":"," ">> \o ValueOf(item.notes)>> ELSE <<>>)
  \o << <<>> >>

RECURSIVE allItemLines(_, _)
allItemLines(items, idx) ==
  IF idx > Len(items) THEN <<>>
  ELSE itemLines(items[idx], idx) \o allItemLines(items, idx + 1)

\* issues.slice(0, 8)
MaxListedIssues == 8

\* checkLines that lists every issue, however many
checkLinesAll(issues) ==
  IF issues = <<>> THEN <<>>
  ELSE <<<<"C","h","e","c","k","s","\n">>>> \o [i \in 1..Len(issues) |-> <<"-"," ">> \o issues[i].message]

checkLines(issues) ==
  LET listed == slice0(issues, MaxListedIssues)
  IN IF issues = <<>> THEN <<>>
     ELSE <<<<"C","h","e","c","k","s","\n">>>>
          \o [i \in 1..Len(listed) |-> <<"-"," ">> \o listed[i].message]
          \o (IF Len(issues) > MaxListedIssues
              THEN <<<<"-"," ","(","+">> \o numberToString(Len(issues) - MaxListedIssues) \o <<" ","m","o","r","e",")">>>>
              ELSE <<>>)

formatActionItems(items, issues) ==
  IF items = <<>> THEN <<"N","o"," ","o","b","v","i","o","u","s"," ","a","c","t","i","o","n"," ","i","t","e","m","s"," ","f","o","u","n","d",".">>
  ELSE trim(join(<<<<"A","c","t","i","o","n"," ","I","t","e","m","s","\n">>>> \o allItemLines(items, 1) \o checkLines(issues),
                 <<"\n">>))

\* bullets.slice(0, 6)
SummaryMaxBullets == 6

\* makeSummary with no answer of its own for an empty list
makeSummaryNoGuard(bs) ==
  LET top == slice0(bs, SummaryMaxBullets)
      restCount == Len(bs) - Len(top)
  IN join(<<<<"S","u","m","m","a","r","y","\n">>>>
          \o [i \in 1..Len(top) |-> <<"-"," ">> \o top[i]]
          \o (IF restCount # 0
              THEN <<<<"\n","(">> \o numberToString(restCount) \o <<" ","a","d","d","i","t","i","o","n","a","l"," ","n","o","t","e">>
                     \o (IF restCount = 1 THEN <<>> ELSE <<"s">>) \o <<")">>>>
              ELSE <<>>),
          <<"\n">>)

\* makeSummary whose count note is always in the plural
makeSummaryPlural(bs) ==
  LET top == slice0(bs, SummaryMaxBullets)
      restCount == Len(bs) - Len(top)
  IN IF bs = <<>> THEN <<"N","o"," ","n","o","t","e","s"," ","p","r","o","v","i","d","e","d",".">>
     ELSE join(<<<<"S","u","m","m","a","r","y","\n">>>>
               \o [i \in 1..Len(top) |-> <<"-"," ">> \o top[i]]
               \o (IF restCount # 0
                   THEN <<<<"\n","(">> \o numberToString(restCount) \o <<" ","a","d","d","i","t","i","o","n","a","l"," ","n","o","t","e","s",")">>>>
                   ELSE <<>>),
               <<"\n">>)

makeSummary(bs) ==
  LET top == slice0(bs, SummaryMaxBullets)
      restCount == Len(bs) - Len(top)
  IN IF bs = <<>> THEN <<"N","o"," ","n","o","t","e","s"," ","p","r","o","v","i","d","e","d",".">>
     ELSE join(<<<<"S","u","m","m","a","r","y","\n">>>>
               \o [i \in 1..Len(top) |-> <<"-"," ">> \o top[i]]
               \o (IF restCount # 0
                   THEN <<<<"\n","(">> \o numberToString(restCount) \o <<" ","a","d","d","i","t","i","o","n","a","l"," ","n","o","t","e">>
                          \o (IF restCount = 1 THEN <<>> ELSE <<"s">>) \o <<")">>>>
                   ELSE <<>>),
               <<"\n">>)

(* ------------------------------------------------------------------------ *)
(* web/lib/recap.ts: makeEmailDraft, makeFollowUpEmailDraftFromHighlights    *)
(* ------------------------------------------------------------------------ *)

EmailTypes == {"followUp", "question", "actionComplete", "actionClarification", "concern"}
EmailTones == {"professional", "warm", "friendlyProfessional", "casual"}

subjectByType ==
  [t \in EmailTypes |->
     CASE t = "followUp" -> <<"F","o","l","l","o","w","-","U","p"," ","F","r","o","m"," ","O","u","r"," ","M","e","e","t","i","n","g">>
       [] t = "question" -> <<"Q","u","i","c","k"," ","Q","u","e","s","t","i","o","n"," ","F","r","o","m"," ","O","u","r"," ","M","e","e","t","i","n","g">>
       [] t = "actionComplete" -> <<"U","p","d","a","t","e",":"," ","A","c","t","i","o","n"," ","I","t","e","m"," ","C","o","m","p","l","e","t","e","d">>
       [] t = "actionClarification" -> <<"C","l","a","r","i","f","i","c","a","t","i","o","n"," ","N","e","e","d","e","d"," ","O","n"," ","A","n"," ","A","c","t","i","o","n"," ","I","t","e","m">>
       [] t = "concern" -> <<"C","o","n","c","e","r","n"," ","A","n","d"," ","F","o","l","l","o","w","-","U","p"," ","F","r","o","m"," ","O","u","r"," ","M","e","e","t","i","n","g">>]

greetingByTone ==
  [t \in EmailTones |->
     CASE t = "professional" -> <<"H","i",",">>
       [] t = "warm" -> <<"H","i"," ","T","h","e","r","e",",">>
       [] t = "friendlyProfessional" -> <<"H","i"," ","T","e","a","m",",">>
       [] t = "casual" -> <<"H","e","y",",">>]

\* closingByTone with no closing for the casual tone
closingByToneGap ==
  [t \in EmailTones |->
     CASE t = "professional" -> <<"T","h","a","n","k","s",",">>
       [] t = "warm" -> <<"T","h","a","n","k","s"," ","S","o"," ","M","u","c","h",",">>
       [] t = "friendlyProfessional" -> <<"T","h","a","n","k","s","!">>
       [] t = "casual" -> <<>>]

closingByTone ==
  [t \in EmailTones |->
     CASE t = "professional" -> <<"T","h","a","n","k","s",",">>
       [] t = "warm" -> <<"T","h","a","n","k","s"," ","S","o"," ","M","u","c","h",",">>
       [] t = "friendlyProfessional" -> <<"T","h","a","n","k","s","!">>
       [] t = "casual" -> <<"T","h","a","n","k","s",",">>]

introByType ==
  [t \in EmailTypes |->
     CASE t = "followUp" -> <<"H","e","r","e"," ","A","r","e"," ","T","h","e"," ","K","e","y"," ","P","o","i","n","t","s"," ","F","r","o","m"," ","O","u","r"," ","D","i","s","c","u","s","s","i","o","n",":">>
       [] t = "question" -> <<"I"," ","H","a","d"," ","A"," ","Q","u","i","c","k"," ","Q","u","e","s","t","i","o","n"," ","C","o","m","i","n","g"," ","O","u","t"," ","O","f"," ","O","u","r"," ","D","i","s","c","u","s","s","i","o","n",":">>
       [] t = "actionComplete" -> <<"Q","u","i","c","k"," ","U","p","d","a","t","e"," ","-"," ","W","e"," ","C","o","m","p","l","e","t","e","d"," ","T","h","e"," ","F","o","l","l","o","w","i","n","g",":">>
       [] t = "actionClarification" -> <<"C","o","u","l","d"," ","Y","o","u"," ","C","l","a","r","i","f","y"," ","T","h","e"," ","F","o","l","l","o","w","i","n","g"," ","I","t","e","m"," ","F","r","o","m"," ","O","u","r"," ","D","i","s","c","u","s","s","i","o","n","?">>
       [] t = "concern" -> <<"I"," ","W","a","n","t","e","d"," ","T","o"," ","F","l","a","g"," ","A"," ","C","o","n","c","e","r","n"," ","A","n","d"," ","C","o","n","f","i","r","m"," ","N","e","x","t"," ","S","t","e","p","s",":">>]

\* the default bullet limit of makeEmailDraft
DefaultMaxBullets == 6

\* x ?? fallback of an optional value
orElse(o, fallback) == IF IsSome(o) THEN ValueOf(o) ELSE fallback

dashed(ls) == [i \in 1..Len(ls) |-> <<"-"," ">> \o ls[i]]

\* the subject line's value
emailSubject(opts) ==
  trim(orElse(opts.subjectOverride, subjectByType[orElse(opts.type, "followUp")]))

contextBlock(opts) ==
  LET contextLines == filterBoolean(opts.contextLines)
  IN IF Len(contextLines) > 0
     THEN <<"C","o","n","t","e","x","t","\n">> \o join(dashed(contextLines), <<"\n">>) \o <<"\n","\n">>
     ELSE <<>>

\* opts: [type, tone, subjectOverride, maxBullets: optional; contextLines: a list]
makeEmailDraft(bs, opts) ==
  LET type == orElse(opts.type, "followUp")
      tone == orElse(opts.tone, "professional")
      maxBullets == orElse(opts.maxBullets, DefaultMaxBullets)
      bodyLines == dashed(slice0(bs, maxBullets))
      body == join(bodyLines, <<"\n">>)
  IN <<"E","m","a","i","l"," ","D","r","a","f","t","\n">>
     \o <<"S","u","b","j","e","c","t",":"," ">> \o emailSubject(opts) \o <<"\n","\n">>
     \o greetingByTone[tone] \o <<"\n","\n">>
     \o contextBlock(opts)
     \o introByType[type] \o <<"\n">>
     \o (IF body # <<>> THEN body ELSE <<"-"," ","(","N","o"," ","N","o","t","e","s"," ","P","r","o","v","i","d","e","d",")">>) \o <<"\n","\n">>
     \o <<"L","e","t"," ","M","e"," ","K","n","o","w"," ","I","f"," ","Y","o","u"," ","H","a","v","e"," ","Q","u","e","s","t","i","o","n","s",".","\n","\n">>
     \o closingByTone[tone]

\* safeString(x).trim() of an optional string
safeTrim(o) == trim(orElse(o, <<>>))

\* highlights.slice(0, 50)
MaxHighlightsUsed == 50
\* maxBullets: 20
FollowUpMaxBullets == 20

\* highlightBullet that prefixes every non-empty tag, "None" included
highlightBulletAnyTag(h) ==
  LET tag == safeTrim(h.tag)
      txt == safeTrim(Some(h.text))
      prefix == IF tag # <<>> THEN <<"[">> \o tag \o <<"]"," ">> ELSE <<>>
  IN IF txt = <<>> THEN <<>> ELSE trim(prefix \o txt)

\* the bullet one highlight maps to ("" when its text is blank)
highlightBullet(h) ==
  LET tag == safeTrim(h.tag)
      txt == safeTrim(Some(h.text))
      prefix == IF tag # <<>> /\ tag # <<"N","o","n","e">> THEN <<"[">> \o tag \o <<"]"," ">> ELSE <<>>
  IN IF txt = <<>> THEN <<>> ELSE trim(prefix \o txt)

\* followUpContextLines that keeps the line of a Pending result
followUpContextLinesAnyResult(args) ==
  LET followUpType == safeTrim(args.followUpType)
      focusPrompt == safeTrim(args.focusPrompt)
      emailPrompt == safeTrim(args.emailPrompt)
      meetingResult == safeTrim(args.meetingResult)
      meetingOutcome == safeTrim(args.meetingOutcome)
  IN (IF followUpType # <<>> THEN <<<<"F","o","l","l","o","w","-","U","p"," ","T","y","p","e",":"," ">> \o followUpType>> ELSE <<>>)
     \o (IF meetingResult # <<>> THEN <<<<"M","e","e","t","i","n","g"," ","R","e","s","u","l","t",":"," ">> \o meetingResult>> ELSE <<>>)
     \o (IF focusPrompt # <<>> THEN <<<<"F","o","c","u","s",":"," ">> \o focusPrompt>> ELSE <<>>)
     \o (IF meetingOutcome # <<>> THEN <<<<"O","u","t","c","o","m","e",":"," ">> \o meetingOutcome>> ELSE <<>>)
     \o (IF emailPrompt # <<>> THEN <<<<"E","m","a","i","l"," ","I","n","s","t","r","u","c","t","i","o","n","s",":"," ">> \o emailPrompt>> ELSE <<>>)

followUpContextLines(args) ==
  LET followUpType == safeTrim(args.followUpType)
      focusPrompt == safeTrim(args.focusPrompt)
      emailPrompt == safeTrim(args.emailPrompt)
      meetingResult == safeTrim(args.meetingResult)
      meetingOutcome == safeTrim(args.meetingOutcome)
  IN (IF followUpType # <<>> THEN <<<<"F","o","l","l","o","w","-","U","p"," ","T","y","p","e",":"," ">> \o followUpType>> ELSE <<>>)
     \o (IF meetingResult # <<>> /\ meetingResult # <<"P","e","n","d","i","n","g">>
         THEN <<<<"M","e","e","t","i","n","g"," ","R","e","s","u","l","t",":"," ">> \o meetingResult>> ELSE <<>>)
     \o (IF focusPrompt # <<>> THEN <<<<"F","o","c","u","s",":"," ">> \o focusPrompt>> ELSE <<>>)
     \o (IF meetingOutcome # <<>> THEN <<<<"O","u","t","c","o","m","e",":"," ">> \o meetingOutcome>> ELSE <<>>)
     \o (IF emailPrompt # <<>> THEN <<<<"E","m","a","i","l"," ","I","n","s","t","r","u","c","t","i","o","n","s",":"," ">> \o emailPrompt>> ELSE <<>>)

\* followUpBullets without the cap on the highlights used
followUpBulletsUncapped(highlights) ==
  IF Len(highlights) > 0
  THEN filterBoolean([i \in 1..Len(highlights) |-> highlightBullet(highlights[i])])
  ELSE <<<<"(","N","o"," ","F","o","l","l","o","w","-","U","p"," ","I","t","e","m","s"," ","S","e","l","e","c","t","e","d"," ","Y","e","t",")">>>>

followUpBullets(highlights) ==
  LET used == slice0(highlights, MaxHighlightsUsed)
  IN IF Len(highlights) > 0
     THEN filterBoolean([i \in 1..Len(used) |-> highlightBullet(used[i])])
     ELSE <<<<"(","N","o"," ","F","o","l","l","o","w","-","U","p"," ","I","t","e","m","s"," ","S","e","l","e","c","t","e","d"," ","Y","e","t",")">>>>

makeFollowUpEmailDraftFromHighlights(args) ==
  LET followUpType == safeTrim(args.followUpType)
  IN makeEmailDraft(followUpBullets(args.highlights),
       [type |-> Some(orElse(args.emailType, "followUp")),
        tone |-> Some(orElse(args.emailTone, "professional")),
        subjectOverride |-> IF followUpType # <<>>
                            THEN Some(<<"F","o","l","l","o","w","-","U","p"," ","-"," ">> \o followUpType) ELSE None,
        contextLines |-> followUpContextLines(args),
        maxBullets |-> Some(FollowUpMaxBullets)])

(* ------------------------------------------------------------------------ *)
(* web/app/api/generate/route.ts: POST /api/generate                         *)
(* web/app/page.tsx: generateViaApi                                          *)
(* ------------------------------------------------------------------------ *)

\* String(x ?? "").trim() of an optional string field of the body
cleanStr(x) == trim(orElse(x, <<>>))

buildMergedNotes(params) ==
  LET raw == trim(params.rawNotes)
      post == trim(params.postMeetingNotes)
      outcome == trim(params.meetingOutcome)
      parts == (IF raw # <<>> THEN <<raw>> ELSE <<>>)
               \o (IF post # <<>> THEN << <<>>, <<"#","#"," ","P","o","s","t","-","M","e","e","t","i","n","g"," ","N","o","t","e","s">>, post >> ELSE <<>>)
               \o (IF outcome # <<>> THEN << <<>>, <<"#","#"," ","M","e","e","t","i","n","g"," ","O","u","t","c","o","m","e">>, outcome >> ELSE <<>>)
  IN join(parts, <<"\n">>)

MAX_MERGED_CHARS == 50000

\* missingInput that does not look at meetingOutcome
missingInputNoOutcome(rawNotes, postMeetingNotes, meetingOutcome) ==
  rawNotes = <<>> /\ postMeetingNotes = <<>>

\* !rawNotes && !postMeetingNotes && !meetingOutcome
missingInput(rawNotes, postMeetingNotes, meetingOutcome) ==
  rawNotes = <<>> /\ postMeetingNotes = <<>> /\ meetingOutcome = <<>>

\* tooLarge that turns away a merged text of exactly MAX_MERGED_CHARS
tooLargeAtMax(merged) == Len(merged) >= MAX_MERGED_CHARS

\* merged.length > MAX_MERGED_CHARS
tooLarge(merged) == Len(merged) > MAX_MERGED_CHARS

\* an email that is drafted after all
emailDrafted == <<"E","m","a","i","l"," ","D","r","a","f","t">>

\* const email = ""
email == <<>>

\* the recap functions the handler calls once the request is admitted, in order
pipelineCalls ==
  <<"parseBullets", "parseActionItems", "detectActionIssues", "makeSummary", "formatActionItems">>

\* the outputs of the deterministic pipeline on the merged notes
coreOutputs(merged) ==
  LET bs == parseBullets(merged)
      its == parseActionItems(bs)
      iss == detectActionIssues(its)
  IN [summary |-> makeSummary(bs), actionItems |-> formatActionItems(its, iss), email |-> email]

\* the handler on a request whose body is None when req.json() throws and
\* Some(fields) otherwise; calls lists the recap functions it called. The
\* router hooks that fill the debug part of the response are total and do not
\* touch outputs.
POST(req) ==
  IF ~IsSome(req)
  THEN [status |-> 500, ok |-> FALSE, error |-> Some(<<"F","a","i","l","e","d"," ","t","o"," ","g","e","n","e","r","a","t","e"," ","o","u","t","p","u","t","s">>),
        outputs |-> None, calls |-> <<>>]
  ELSE
    LET body == ValueOf(req)
        rawNotes == cleanStr(body.rawNotes)
        postMeetingNotes == cleanStr(body.postMeetingNotes)
        meetingOutcome == cleanStr(body.meetingOutcome)
        merged == buildMergedNotes([rawNotes |-> rawNotes,
                                    postMeetingNotes |-> postMeetingNotes,
                                    meetingOutcome |-> meetingOutcome])
    IN IF missingInput(rawNotes, postMeetingNotes, meetingOutcome)
       THEN [status |-> 400, ok |-> FALSE,
             error |-> Some(<<"M","i","s","s","i","n","g"," ","i","n","p","u","t",":"," ","p","r","o","v","i","d","e"," ","r","a","w","N","o","t","e","s",","," ","p","o","s","t","M","e","e","t","i","n","g","N","o","t","e","s",","," ","o","r"," ","m","e","e","t","i","n","g","O","u","t","c","o","m","e",".">>),
             outputs |-> None, calls |-> <<>>]
       ELSE IF tooLarge(merged)
       THEN [status |-> 413, ok |-> FALSE,
             error |-> Some(<<"N","o","t","e","s"," ","t","o","o"," ","l","a","r","g","e"," ","(">> \o numberToString(Len(merged))
                            \o <<" ","c","h","a","r","s",")","."," ","P","l","e","a","s","e"," ","s","h","o","r","t","e","n"," ","a","n","d"," ","t","r","y"," ","a","g","a","i","n",".">>),
             outputs |-> None, calls |-> <<>>]
       ELSE [status |-> 200, ok |-> TRUE, error |-> None,
             outputs |-> Some(coreOutputs(merged)), calls |-> pipelineCalls]

\* what generateViaApi returns for the response data: None is null
generateViaApi(data) ==
  IF ~data.ok \/ ~IsSome(data.outputs) THEN None
  ELSE Some([summary |-> ValueOf(data.outputs).summary,
             actionItems |-> ValueOf(data.outputs).actionItems,
             email |-> <<>>])

(* ------------------------------------------------------------------------ *)
(* web/app/api/follow-up/route.ts: POST /api/follow-up                       *)
(* ------------------------------------------------------------------------ *)

EMAIL_TYPES == {"followUp", "question", "actionComplete", "actionClarification", "concern"}
EMAIL_TONES == {"professional", "warm", "friendlyProfessional", "casual"}
MEETING_RESULTS ==
  {<<"C","o","m","p","l","e","t","e","d">>, <<"N","o"," ","S","h","o","w">>, <<"R","e","s","c","h","e","d","u","l","e","d">>, <<"C","a","n","c","e","l","l","e","d">>, <<"B","l","o","c","k","e","d">>, <<"P","e","n","d","i","n","g">>}

asEmailType(x) == IF IsSome(x) /\ ValueOf(x) \in EMAIL_TYPES THEN ValueOf(x) ELSE "followUp"
asEmailTone(x) == IF IsSome(x) /\ ValueOf(x) \in EMAIL_TONES THEN ValueOf(x) ELSE "professional"
asMeetingResult(x) ==
  IF IsSome(x) /\ ValueOf(x) \in MEETING_RESULTS THEN ValueOf(x) ELSE <<"P","e","n","d","i","n","g">>

\* the callback of normalizeHighlights does not return null for h
keepsHighlight(h) == cleanStr(Some(h.text)) # <<>>

\* x is the highlights of the body: None unless it is an array
normalizeHighlights(x) ==
  IF ~IsSome(x) THEN <<>>
  ELSE LET kept == SelectSeq(ValueOf(x), keepsHighlight)
       IN [i \in 1..Len(kept) |->
             [text |-> cleanStr(Some(kept[i].text)),
              tag |-> IF cleanStr(kept[i].tag) # <<>> THEN Some(cleanStr(kept[i].tag)) ELSE None]]

\* the answer of a handler: the response, and the arguments the formatter was
\* called with, if it was called
followUpFailure(status, error) ==
  [status |-> status, ok |-> FALSE, email |-> None, error |-> Some(error), args |-> None]

followUpAnswer(args) ==
  \* the draft starts with its subject line, so it is never blank
  [status |-> 200, ok |-> TRUE, email |-> Some(makeFollowUpEmailDraftFromHighlights(args)),
   error |-> None, args |-> Some(args)]

\* POST of route.ts:111-155, which normalizes the highlights
POSTNormalizing(req) ==
  IF ~IsSome(req)
  THEN followUpFailure(500, <<"F","a","i","l","e","d"," ","t","o"," ","g","e","n","e","r","a","t","e"," ","f","o","l","l","o","w","-","u","p"," ","e","m","a","i","l">>)
  ELSE
    LET body == ValueOf(req)
        highlights == normalizeHighlights(body.highlights)
    IN IF Len(highlights) = 0
       THEN followUpFailure(400, <<"A","d","d"," ","a","t"," ","l","e","a","s","t"," ","1"," ","h","i","g","h","l","i","g","h","t"," ","t","o"," ","g","e","n","e","r","a","t","e"," ","a"," ","f","o","l","l","o","w","-","u","p"," ","e","m","a","i","l",".">>)
       ELSE followUpAnswer(
              [highlights |-> highlights,
               followUpType |-> Some(cleanStr(body.followUpType)),
               focusPrompt |-> Some(cleanStr(body.focusPrompt)),
               emailPrompt |-> Some(cleanStr(body.emailPrompt)),
               meetingResult |-> Some(asMeetingResult(body.meetingResult)),
               meetingOutcome |-> Some(cleanStr(body.meetingOutcome)),
               emailType |-> Some(asEmailType(body.emailType)),
               emailTone |-> Some(asEmailTone(body.emailTone))])

\* POST of route.ts:199-233, the last one of the file
POSTFollowUp(req) ==
  IF ~IsSome(req)
  THEN followUpFailure(400, <<"F","a","i","l","e","d"," ","t","o"," ","g","e","n","e","r","a","t","e"," ","f","o","l","l","o","w","-","u","p"," ","e","m","a","i","l">>)
  ELSE
    LET body == ValueOf(req)
    IN followUpAnswer(
         [highlights |-> orElse(body.highlights, <<>>),
          followUpType |-> Some(trim(orElse(body.followUpType, <<>>))),
          focusPrompt |-> Some(trim(orElse(body.focusPrompt, <<>>))),
          emailPrompt |-> Some(trim(orElse(body.emailPrompt, <<>>))),
          meetingResult |-> Some(asMeetingResult(body.meetingResult)),
          meetingOutcome |-> Some(trim(orElse(body.meetingOutcome, <<>>))),
          emailType |-> Some(asEmailType(body.emailType)),
          emailTone |-> Some(asEmailTone(body.emailTone))])

(* ------------------------------------------------------------------------ *)
(* web/lib/sessionStore.ts: createSession                                    *)
(* web/app/page.tsx: checkpoints, undo and redo, generation                  *)
(*                                                                           *)
(* Date.now() values (createdAt, updatedAt, the timestamp of a checkpoint)   *)
(* are read by no branch of the code and are left out of the records.        *)
(* ------------------------------------------------------------------------ *)

\* defaultOutputs with a summary that no generation produced
placeholderOutputs == [actionItems |-> <<>>, summary |-> <<"S","u","m","m","a","r","y">>, email |-> <<>>]

defaultOutputs == [actionItems |-> <<>>, summary |-> <<>>, email |-> <<>>]

\* { ...a, ...b } of two objects
spread(a, b) == b @@ a

createSession(id) ==
  [id |-> id,
   title |-> <<"U","n","t","i","t","l","e","d"," ","M","e","e","t","i","n","g">>,
   folderId |-> None,
   mode |-> "current",
   objective |-> <<>>,
   rawNotes |-> <<>>,
   postMeetingNotes |-> <<>>,
   outputs |-> defaultOutputs,
   pastMeta |-> None,
   followUps |-> None,
   checkpoints |-> <<>>,
   redoStack |-> <<>>]

checkpointCoreEqual(a, b) ==
  /\ a.rawNotes = b.rawNotes
  /\ a.objective = b.objective
  /\ a.outputs.actionItems = b.outputs.actionItems
  /\ a.outputs.summary = b.outputs.summary
  /\ a.outputs.email = b.outputs.email

getCheckpoints(s) == s.checkpoints
getRedoStack(s) == s.redoStack

makeCheckpoint(reason, s) ==
  [rawNotes |-> s.rawNotes, objective |-> s.objective, outputs |-> s.outputs, reason |-> reason]

MAX_CHECKPOINTS == 50

\* pushCheckpoint that never drops a checkpoint
pushCheckpointUncapped(session, checkpoint) ==
  LET existing == getCheckpoints(session)
  IN IF existing # <<>> /\ checkpointCoreEqual(existing[Len(existing)], checkpoint)
     THEN existing
     ELSE Append(existing, checkpoint)

pushCheckpoint(session, checkpoint) ==
  LET existing == getCheckpoints(session)
      next == Append(existing, checkpoint)
  IN IF existing # <<>> /\ checkpointCoreEqual(existing[Len(existing)], checkpoint)
     THEN existing
     ELSE IF Len(next) > MAX_CHECKPOINTS
          THEN SubSeq(next, Len(next) - MAX_CHECKPOINTS + 1, Len(next))
          ELSE next

\* the session doDestructive stores: currentSession is the session of the
\* render the handler was created in, mutation the object mutate returns
doDestructive(currentSession, reason, mutation) ==
  spread(spread(currentSession,
                [checkpoints |-> pushCheckpoint(currentSession, makeCheckpoint(reason, currentSession)),
                 redoStack |-> <<>>]),
         mutation)

\* patchSession that leaves the redo stack as it is
patchSessionKeepingRedo(base, patch, clearRedo) == spread(base, patch)

\* the session patchSession stores: base is the stored session
patchSession(base, patch, clearRedo) ==
  LET updated == spread(base, patch)
  IN IF clearRedo THEN [updated EXCEPT !.redoStack = <<>>] ELSE updated

getPastMeta(s) ==
  [meetingResult |-> IF IsSome(s.pastMeta) THEN ValueOf(s.pastMeta).meetingResult ELSE <<"P","e","n","d","i","n","g">>,
   meetingOutcome |-> IF IsSome(s.pastMeta) THEN ValueOf(s.pastMeta).meetingOutcome ELSE <<>>]

patchPastMeta(currentSession, patch) ==
  patchSession(currentSession, [pastMeta |-> Some(spread(getPastMeta(currentSession), patch))], TRUE)

\* the state of the past raw notes edit
resetPastEditUi ==
  [showPastEditConfirm |-> FALSE, isEditingPastRawNotes |-> FALSE,
   pastEditDraft |-> <<>>, pastEditOriginal |-> <<>>]

getRawNotesForGeneration(s, u) ==
  IF s.mode = "past" /\ u.isEditingPastRawNotes THEN u.pastEditDraft ELSE s.rawNotes

\* the body generateViaApi posts; the route does not read mode for the outputs
generateBody(rawNotes, s) ==
  Some([rawNotes |-> Some(rawNotes),
        postMeetingNotes |-> Some(s.postMeetingNotes),
        meetingOutcome |-> Some(getPastMeta(s).meetingOutcome)])

\* The three handlers that wait for generateViaApi. currentSession is the
\* session of the render the handler was started in, stored the session in
\* the list when generateViaApi returns, outputs what it returned (None is
\* null); the value is the session stored afterwards.

\* runGenerate that stores outputs whether or not the generation succeeded
runGenerateUnchecked(currentSession, stored, reason, outputs) ==
  doDestructive(currentSession, reason, [outputs |-> orElse(outputs, defaultOutputs)])

runGenerate(currentSession, stored, reason, outputs) ==
  IF ~IsSome(outputs) THEN stored
  ELSE doDestructive(currentSession, reason, [outputs |-> ValueOf(outputs)])

handleEndMeeting(currentSession, stored, outputs) ==
  IF ~IsSome(outputs) THEN stored
  ELSE doDestructive(currentSession, "end",
         [mode |-> "past",
          outputs |-> ValueOf(outputs),
          pastMeta |-> IF IsSome(currentSession.pastMeta) THEN currentSession.pastMeta
                       ELSE Some([meetingResult |-> <<"P","e","n","d","i","n","g">>, meetingOutcome |-> <<>>])])

savePastEdit(currentSession, stored, pastEditDraft, outputs) ==
  IF ~IsSome(outputs) THEN stored
  ELSE doDestructive(currentSession, "manual",
         [rawNotes |-> pastEditDraft, outputs |-> ValueOf(outputs)])

handleUndo(currentSession) ==
  LET checkpoints == getCheckpoints(currentSession)
      previous == checkpoints[Len(checkpoints)]
      nowSnap == makeCheckpoint("manual", currentSession)
  IN spread(currentSession,
       [rawNotes |-> previous.rawNotes,
        objective |-> previous.objective,
        outputs |-> previous.outputs,
        checkpoints |-> SubSeq(checkpoints, 1, Len(checkpoints) - 1),
        redoStack |-> Append(getRedoStack(currentSession), nowSnap)])

\* handleRedo that does not keep the state it leaves as a checkpoint
handleRedoForgetting(currentSession) ==
  LET redoStack == getRedoStack(currentSession)
      next == redoStack[Len(redoStack)]
  IN spread(currentSession,
       [rawNotes |-> next.rawNotes,
        objective |-> next.objective,
        outputs |-> next.outputs,
        redoStack |-> SubSeq(redoStack, 1, Len(redoStack) - 1)])

handleRedo(currentSession) ==
  LET redoStack == getRedoStack(currentSession)
      next == redoStack[Len(redoStack)]
      nowSnap == makeCheckpoint("manual", currentSession)
  IN spread(currentSession,
       [rawNotes |-> next.rawNotes,
        objective |-> next.objective,
        outputs |-> next.outputs,
        redoStack |-> SubSeq(redoStack, 1, Len(redoStack) - 1),
        checkpoints |-> Append(getCheckpoints(currentSession), nowSnap)])

handleClear(currentSession) ==
  doDestructive(currentSession, "clear",
    [rawNotes |-> <<>>,
     objective |-> <<>>,
     outputs |-> [actionItems |-> <<>>, summary |-> <<>>, email |-> <<>>],
     postMeetingNotes |-> <<>>,
     pastMeta |-> IF currentSession.mode = "past"
                  THEN Some([meetingResult |-> getPastMeta(currentSession).meetingResult,
                             meetingOutcome |-> <<>>])
                  ELSE currentSession.pastMeta])

(* ------------------------------------------------------------------------ *)
(* web/lib/sessionStore.ts: the session list and its persistence            *)
(*                                                                           *)
(* An object is a record whose domain is the set of its defined properties;  *)
(* a property that may be undefined on a Session is an option, None when it  *)
(* is undefined. folderId None is null.                                      *)
(* ------------------------------------------------------------------------ *)

\* o?.k, None when the property is absent
prop(o, k) == IF k \in DOMAIN o THEN Some(o[k]) ELSE None

\* the id generateId() returns for a value read without one
NewId == "generated"

normalizeOutputs(o) ==
  [actionItems |-> orElse(prop(o, "actionItems"), <<>>),
   summary |-> orElse(prop(o, "summary"), <<>>),
   email |-> orElse(prop(o, "email"), <<>>)]

normalizePastMeta(p) ==
  [meetingResult |-> orElse(prop(p, "meetingResult"), <<"P","e","n","d","i","n","g">>),
   meetingOutcome |-> orElse(prop(p, "meetingOutcome"), <<>>),
   nextMeetingDate |-> orElse(prop(p, "nextMeetingDate"), <<>>)]

storedHighlight(h) ==
  [id |-> orElse(prop(h, "id"), NewId),
   text |-> orElse(prop(h, "text"), <<>>),
   tag |-> orElse(prop(h, "tag"), <<"N","o","n","e">>)]

\* normalizeHighlights of sessionStore.ts, on an array
normalizeStoredHighlights(raw) == <<>> \o [i \in 1..Len(raw) |-> storedHighlight(raw[i])]

defaultFollowUpData(id) ==
  [id |-> id,
   title |-> <<"U","n","t","i","t","l","e","d"," ","F","o","l","l","o","w","-","U","p">>,
   followUpType |-> <<"E","m","a","i","l">>,
   focusPrompt |-> <<>>,
   emailPrompt |-> <<>>,
   highlights |-> <<>>]

\* normalizeFollowUpData that keeps the properties it does not know
normalizeFollowUpDataKeeping(f) ==
  [id |-> orElse(prop(f, "id"), NewId),
   title |-> orElse(prop(f, "title"), <<"U","n","t","i","t","l","e","d"," ","F","o","l","l","o","w","-","U","p">>),
   followUpType |-> orElse(prop(f, "followUpType"), <<"E","m","a","i","l">>),
   focusPrompt |-> orElse(prop(f, "focusPrompt"), <<>>),
   emailPrompt |-> orElse(prop(f, "emailPrompt"), <<>>),
   highlights |-> normalizeStoredHighlights(orElse(prop(f, "highlights"), <<>>))] @@ f

normalizeFollowUpData(f) ==
  [id |-> orElse(prop(f, "id"), NewId),
   title |-> orElse(prop(f, "title"), <<"U","n","t","i","t","l","e","d"," ","F","o","l","l","o","w","-","U","p">>),
   followUpType |-> orElse(prop(f, "followUpType"), <<"E","m","a","i","l">>),
   focusPrompt |-> orElse(prop(f, "focusPrompt"), <<>>),
   emailPrompt |-> orElse(prop(f, "emailPrompt"), <<>>),
   highlights |-> normalizeStoredHighlights(orElse(prop(f, "highlights"), <<>>))]

normalizeCheckpoint(cp) ==
  LET reasonRaw == orElse(prop(cp, "reason"), "manual")
  IN [rawNotes |-> orElse(prop(cp, "rawNotes"), <<>>),
      objective |-> orElse(prop(cp, "objective"), <<>>),
      outputs |-> normalizeOutputs(orElse(prop(cp, "outputs"), defaultOutputs)),
      reason |-> IF reasonRaw \in {"clear", "generate", "end", "manual"} THEN reasonRaw
                 ELSE "manual"]

normalizeSession(s) ==
  LET modeRaw == orElse(prop(s, "mode"), "current")
      followUpsRaw == orElse(prop(s, "followUps"), <<>>)
      checkpointsRaw == orElse(prop(s, "checkpoints"), <<>>)
      redoRaw == orElse(prop(s, "redoStack"), <<>>)
      legacySingleFollowUp == prop(s, "followUp")
      followUpsNormalized ==
        <<>> \o [i \in 1..Len(followUpsRaw) |-> normalizeFollowUpData(followUpsRaw[i])]
          \o (IF IsSome(legacySingleFollowUp)
              THEN <<normalizeFollowUpData(ValueOf(legacySingleFollowUp))>> ELSE <<>>)
      legacyMeetingResult ==
        IF IsSome(legacySingleFollowUp) THEN prop(ValueOf(legacySingleFollowUp), "meetingResult")
        ELSE None
      legacyMeetingOutcome ==
        IF IsSome(legacySingleFollowUp) THEN prop(ValueOf(legacySingleFollowUp), "meetingOutcome")
        ELSE None
  IN [id |-> orElse(prop(s, "id"), NewId),
      title |-> orElse(prop(s, "title"), <<"U","n","t","i","t","l","e","d"," ","M","e","e","t","i","n","g">>),
      folderId |-> orElse(prop(s, "folderId"), None),
      mode |-> IF modeRaw \in {"past", "current", "followUp"} THEN modeRaw
               ELSE IF modeRaw = "future" THEN "followUp" ELSE "current",
      objective |-> orElse(prop(s, "objective"), <<>>),
      rawNotes |-> orElse(prop(s, "rawNotes"), <<>>),
      postMeetingNotes |-> orElse(prop(s, "postMeetingNotes"), <<>>),
      outputs |-> normalizeOutputs(orElse(prop(s, "outputs"), defaultOutputs)),
      pastMeta |-> IF "pastMeta" \in DOMAIN s THEN Some(normalizePastMeta(s.pastMeta))
                   ELSE IF Truthy(legacyMeetingResult) \/ Truthy(legacyMeetingOutcome)
                   THEN Some(normalizePastMeta(
                          [meetingResult |-> orElse(legacyMeetingResult, <<"P","e","n","d","i","n","g">>),
                           meetingOutcome |-> orElse(legacyMeetingOutcome, <<>>)]))
                   ELSE None,
      followUps |-> IF followUpsNormalized # <<>> THEN Some(followUpsNormalized) ELSE None,
      checkpoints |-> <<>> \o [i \in 1..Len(checkpointsRaw) |-> normalizeCheckpoint(checkpointsRaw[i])],
      redoStack |-> <<>> \o [i \in 1..Len(redoRaw) |-> normalizeCheckpoint(redoRaw[i])]]

\* JSON.parse(JSON.stringify(fu)) of a follow-up: a property that is
\* undefined is not written, and closedAt is the one that can be
definedProps(o) == [k \in {k \in DOMAIN o : k # "closedAt" \/ IsSome(o[k])} |-> o[k]]

\* the parsed text of a session: folderId null is written as null, pastMeta
\* and followUps only when they are defined
jsonSession(s) ==
  [k \in {k \in DOMAIN s : k \notin {"pastMeta", "followUps"} \/ IsSome(s[k])} |->
     IF k = "pastMeta" THEN ValueOf(s.pastMeta)
     ELSE IF k = "followUps"
     THEN <<>> \o [i \in 1..Len(ValueOf(s.followUps)) |-> definedProps(ValueOf(s.followUps)[i])]
     ELSE s[k]]

\* the value localStorage holds after saveSessions, as JSON.parse reads it
saveSessions(list) == Some(<<>> \o [i \in 1..Len(list) |-> jsonSession(list[i])])

\* loadSessions on the stored value, None when the key is not set
loadSessions(stored) ==
  IF ~IsSome(stored) THEN <<>>
  ELSE <<>> \o [i \in 1..Len(ValueOf(stored)) |-> normalizeSession(ValueOf(stored)[i])]

\* updateSession that adds the session when no id matches
updateSessionOrAdd(list, updated) ==
  IF \E i \in 1..Len(list) : list[i].id = updated.id
  THEN <<>> \o [i \in 1..Len(list) |-> IF list[i].id = updated.id THEN updated ELSE list[i]]
  ELSE Append(list, updated)

updateSession(list, updated) ==
  <<>> \o [i \in 1..Len(list) |-> IF list[i].id = updated.id THEN updated ELSE list[i]]

keepsSession(s, sessionId) == s.id # sessionId

deleteSession(list, sessionId) == SelectSeq(list, LAMBDA s : keepsSession(s, sessionId))

moveSessionToFolder(list, sessionId, folderId) ==
  <<>> \o [i \in 1..Len(list) |->
             IF list[i].id = sessionId THEN [list[i] EXCEPT !.folderId = folderId]
             ELSE list[i]]

addFollowUpToSession(s, id, patch) ==
  LET base == defaultFollowUpData(id)
      next == [highlights |-> IF "highlights" \in DOMAIN patch
                              THEN normalizeStoredHighlights(patch.highlights)
                              ELSE base.highlights] @@ spread(base, patch)
      list == orElse(s.followUps, <<>>)
  IN [s EXCEPT !.followUps = Some(Append(list, next))]

updateFollowUpInSession(s, followUpId, patch) ==
  LET list == orElse(s.followUps, <<>>)
      nextList ==
        <<>> \o [i \in 1..Len(list) |->
                   IF list[i].id # followUpId THEN list[i]
                   ELSE [highlights |-> IF "highlights" \in DOMAIN patch
                                        THEN normalizeStoredHighlights(patch.highlights)
                                        ELSE list[i].highlights] @@ spread(list[i], patch)]
  IN [s EXCEPT !.followUps = Some(nextList)]

(* ------------------------------------------------------------------------ *)
(* web/app/session/[sessionId]/follow-up/[followupId]/page.tsx               *)
(* ------------------------------------------------------------------------ *)

findFollowUp(s, followUpId) ==
  LET list == orElse(s.followUps, <<>>)
  IN IF \E i \in 1..Len(list) : list[i].id = followUpId
     THEN Some(list[CHOOSE i \in 1..Len(list) :
                      list[i].id = followUpId /\ \A j \in 1..(i - 1) : list[j].id # followUpId])
     ELSE None

\* save: the list with the updated session in the place of the one with its id
save(list, updatedSession) ==
  <<>> \o [i \in 1..Len(list) |-> IF list[i].id = updatedSession.id THEN updatedSession ELSE list[i]]

\* the list patchFollowUp stores and saves
patchFollowUp(list, s, fu, patch) == save(list, updateFollowUpInSession(s, fu.id, patch))

\* fu.status ?? "open"
statusOf(fu) == orElse(prop(fu, "status"), "open")

\* the patch of toggleComplete; closedAt is Date.now() or undefined
toggleComplete(fu) ==
  IF statusOf(fu) = "closed" THEN [status |-> "open", closedAt |-> None]
  ELSE [status |-> "closed", closedAt |-> Some("now")]

\* the body generateEmail posts to /api/follow-up
followUpBody(s, fu, emailType, emailTone) ==
  Some([highlights |-> Some(<<>> \o [i \in 1..Len(fu.highlights) |->
                                    [text |-> fu.highlights[i].text,
                                     tag |-> Some(fu.highlights[i].tag)]]),
        followUpType |-> Some(fu.followUpType),
        focusPrompt |-> Some(fu.focusPrompt),
        emailPrompt |-> Some(fu.emailPrompt),
        meetingResult |-> Some(getPastMeta(s).meetingResult),
        meetingOutcome |-> Some(getPastMeta(s).meetingOutcome),
        emailType |-> Some(emailType),
        emailTone |-> Some(emailTone)])

(* ------------------------------------------------------------------------ *)
(* unnamed/part_002: the session page that generates in the browser and      *)
(* keeps one followUp object on the session                                  *)
(* ------------------------------------------------------------------------ *)

defaultFollowUp ==
  [followUpType |-> <<"E","m","a","i","l">>, focusPrompt |-> <<>>, emailPrompt |-> <<>>,
   meetingResult |-> <<"P","e","n","d","i","n","g">>, meetingOutcome |-> <<>>, highlights |-> <<>>]

ensureFollowUpInitialized(s) == IF IsSome(s.followUp) THEN ValueOf(s.followUp) ELSE defaultFollowUp

generateArtifactsFromRawNotes(rawNotes, postMeetingNotes, emailType, emailTone) ==
  LET merged == IF trim(postMeetingNotes) # <<>>
                THEN rawNotes \o <<"\n","\n","P","o","s","t","-","M","e","e","t","i","n","g"," ","N","o","t","e","s",":","\n">> \o trim(postMeetingNotes)
                ELSE rawNotes
      bs == parseBullets(merged)
      its == parseActionItems(bs)
      iss == detectActionIssues(its)
  IN [summary |-> makeSummary(bs),
      actionItems |-> formatActionItems(its, iss),
      email |-> makeEmailDraft(bs, [type |-> Some(emailType), tone |-> Some(emailTone),
                                    subjectOverride |-> None, contextLines |-> <<>>,
                                    maxBullets |-> None])]

\* handleGenerateNow of this page: the outputs are computed in the handler
handleGenerateNow(currentSession, emailType, emailTone) ==
  doDestructive(currentSession, "generate",
    [outputs |-> generateArtifactsFromRawNotes(currentSession.rawNotes,
                   currentSession.postMeetingNotes, emailType, emailTone)])

enterFollowUpMode(currentSession) ==
  patchSession(currentSession,
               [mode |-> "followUp", followUp |-> Some(ensureFollowUpInitialized(currentSession))],
               TRUE)

returnToPastMode(currentSession) == patchSession(currentSession, [mode |-> "past"], TRUE)

updateFollowUp(currentSession, patch) ==
  patchSession(currentSession,
               [followUp |-> Some(spread(ensureFollowUpInitialized(currentSession), patch))], TRUE)

\* addHighlight that stores the text as typed, blank or not
addHighlightUnchecked(currentSession, text, tag, id) ==
  updateFollowUp(currentSession,
    [highlights |-> Append(ensureFollowUpInitialized(currentSession).highlights,
                           [id |-> id, text |-> text, tag |-> tag])])

\* id is the value of Math.random().toString(36).slice(2, 10)
addHighlight(currentSession, text, tag, id) ==
  LET fu == ensureFollowUpInitialized(currentSession)
      cleanedText == trim(text)
  IN IF cleanedText = <<>> THEN currentSession
     ELSE updateFollowUp(currentSession,
            [highlights |-> Append(fu.highlights, [id |-> id, text |-> cleanedText, tag |-> tag])])

keepsHighlightRow(h, id) == h.id # id

removeHighlight(currentSession, id) ==
  LET fu == ensureFollowUpInitialized(currentSession)
  IN updateFollowUp(currentSession,
       [highlights |-> SelectSeq(fu.highlights, LAMBDA h : keepsHighlightRow(h, id))])

updateHighlightTag(currentSession, id, tag) ==
  LET fu == ensureFollowUpInitialized(currentSession)
  IN updateFollowUp(currentSession,
       [highlights |-> <<>> \o [i \in 1..Len(fu.highlights) |->
                                  IF fu.highlights[i].id = id
                                  THEN [fu.highlights[i] EXCEPT !.tag = tag]
                                  ELSE fu.highlights[i]]])

(* ------------------------------------------------------------------------ *)
(* State                                                                    *)
(* ------------------------------------------------------------------------ *)

VARIABLES
  text,        \* the text handed to toBullets
  cleaned,     \* toBullets: the candidates after marker stripping, before dedup
  bullets,     \* toBullets: the returned list
  rebullets,   \* toBullets applied to bullets.join("\n")
  segPc,       \* "input" | "segmented" | "resegmented"
  actBullets,  \* the bullets handed to parseActionItems
  items,       \* the ActionItem list
  issues,      \* the ActionIssue list returned by detectActionIssues
  formatted,   \* the text returned by formatActionItems
  summary,     \* the text returned by makeSummary
  actPc,       \* "input" | "parsed" | "detected" | "formatted" | "summarized"
  emailCall,   \* the call under way: [fn, bullets, opts, args]
  emailDraft,  \* the text the call returned
  emailPc,     \* "called" | "returned"
  request,     \* POST /api/generate: the body, None when it is not JSON
  response,    \* the response: [status, ok, error, outputs]
  calls,       \* the recap functions the handler called
  clientOutputs, \* what generateViaApi returned to the page
  genPc,       \* "request" | "responded" | "received"
  session,     \* page.tsx: the stored session shown on the session screen
  ui,          \* page.tsx: the state of the past raw notes edit
  inflight,    \* page.tsx: the handlers waiting for generateViaApi
  trail,       \* the last operations applied: [op, before, ...]
  ops,         \* the number of operations applied
  generated,   \* a generation has succeeded on the stored session
  sessions,    \* sessionStore.ts: the session list in memory
  storage      \* localStorage["recapkit.sessions"], None when unset

segVars == <<text, cleaned, bullets, rebullets, segPc>>
actVars == <<actBullets, items, issues, formatted, summary, actPc>>
emailVars == <<emailCall, emailDraft, emailPc>>
genVars == <<request, response, calls, clientOutputs, genPc>>
pageVars == <<session, ui, inflight, trail, ops, generated>>
storeVars == <<sessions, storage>>
appVars == <<pageVars, storeVars>>
vars == <<segVars, actVars, emailVars, genVars, appVars>>

\* the parts of the state a specification does not exercise
SegIdle ==
  text = <<>> /\ cleaned = <<>> /\ bullets = <<>> /\ rebullets = <<>> /\ segPc = "idle"
ActIdle ==
/\ actBullets = <<>> /\ items = <<>> /\ issues = <<>> /\ formatted = <<>>
  /\ summary = <<>> /\ actPc = "idle"
EmailIdle == emailCall = <<>> /\ emailDraft = <<>> /\ emailPc = "idle"
GenIdle ==
  request = <<>> /\ response = <<>> /\ calls = <<>> /\ clientOutputs = <<>> /\ genPc = "idle"
PageIdle ==
  /\ session = <<>> /\ ui = <<>> /\ inflight = <<>> /\ trail = <<>> /\ ops = 0
  /\ generated = FALSE
StoreIdle == sessions = <<>> /\ storage = <<>>
AppIdle == PageIdle /\ StoreIdle

(* ------------------------------------------------------------------------ *)
(* SpecBullets: toBullets on bounded inputs                                 *)
(* ------------------------------------------------------------------------ *)

MaxTextLen == 4

SegAlphabet == {"a", "A", " ", "\n", "-", ".", "BULLET"}

\* a word of 80 characters, so that one more character crosses the threshold
LongWord == [i \in 1..80 |-> IF i = 1 THEN "Z" ELSE "z"]

RECURSIVE StringsUpTo(_, _)
StringsUpTo(alphabet, n) ==
  IF n = 0 THEN {<<>>}
  ELSE LET shorter == StringsUpTo(alphabet, n - 1)
       IN shorter \cup {Append(s, c) : s \in shorter, c \in alphabet}

\* short texts; texts made long by a leading or trailing long word; and texts
\* of two identical long lines
SegInputs ==
  LET short == StringsUpTo(SegAlphabet, MaxTextLen)
      shorter == StringsUpTo(SegAlphabet, MaxTextLen - 1)
  IN short
     \cup {LongWord \o s : s \in shorter}
     \cup {s \o LongWord : s \in short}
     \cup {(LongWord \o s) \o <<"\n">> \o (LongWord \o s) : s \in shorter}

SegInit ==
  /\ text \in SegInputs
  /\ cleaned = <<>>
  /\ bullets = <<>>
  /\ rebullets = <<>>
  /\ segPc = "input"
  /\ ActIdle /\ EmailIdle /\ GenIdle /\ AppIdle

Segment ==
  /\ segPc = "input"
  /\ LET steps == toBulletsSteps(text)
     IN cleaned' = steps.cleaned /\ bullets' = steps.deduped
  /\ segPc' = "segmented"
  /\ UNCHANGED <<text, rebullets, actVars, emailVars, genVars, appVars>>

Resegment ==
  /\ segPc = "segmented"
  /\ rebullets' = toBullets(join(bullets, <<"\n">>))
  /\ segPc' = "resegmented"
  /\ UNCHANGED <<text, cleaned, bullets, actVars, emailVars, genVars, appVars>>

SegNext == Segment \/ Resegment

SpecBullets == SegInit /\ [][SegNext]_vars

(* ------------------------------------------------------------------------ *)
(* Claims about toBullets                                                   *)
(* ------------------------------------------------------------------------ *)

\* the comparison key of the dedup invariant: whitespace-normalized, lower-cased
CompareKey(b) == toLowerCase(normalizeLine(b))

\* C1: no two bullets returned by toBullets are equal under case-insensitive
\* comparison of their whitespace-normalized strings.
C1_DedupInvariant ==
  segPc # "input" =>
    \A i, j \in 1..Len(bullets) :
      i # j => CompareKey(bullets[i]) # CompareKey(bullets[j])

\* toBullets dropped a candidate that differs from an earlier one only in case
C1_Witness ==
  /\ segPc = "segmented"
  /\ Len(bullets) < Len(cleaned)
  /\ \E i, j \in 1..Len(cleaned) :
       i < j /\ cleaned[i] # cleaned[j] /\ CompareKey(cleaned[i]) = CompareKey(cleaned[j])

StartsWithMarker(b) ==
  LET m == markerLen(b) IN m > 0 /\ m < Len(b) /\ IsSpace(b[m+1])
HasSeparator(b) ==
  \E i \in 1..Len(b) : IsGlyphAt(b, i) \/ IsDashSepAt(b, i) \/ IsPipeSepAt(b, i)
HasSentenceBreak(b) == \E i \in 1..Len(b) : IsSentenceBreakAt(b, i)
PlainBullet(b) == ~StartsWithMarker(b) /\ ~HasSeparator(b) /\ ~HasSentenceBreak(b)

\* C2 as stated: re-segmenting the joined output of toBullets reproduces the
\* identical list, for every input.
C2_IdempotentAlways ==
  segPc = "resegmented" => rebullets = bullets

\* C2 as amended: re-segmenting the joined output reproduces the identical list
\* whenever no returned bullet starts with a list marker followed by whitespace,
\* contains an inline separator or contains a sentence boundary.
C2_IdempotentOnPlainBullets ==
  (segPc = "resegmented" /\ \A k \in 1..Len(bullets) : PlainBullet(bullets[k]))
    => rebullets = bullets

\* an input that took the single-block path and split into several sentences,
\* all plain, was re-segmented
C2_Witness ==
  /\ segPc = "resegmented"
  /\ isSingleBlock(rawOf(text))
  /\ Len(bullets) >= 2
  /\ \A k \in 1..Len(bullets) : PlainBullet(bullets[k])

\* the positions of cleaned that hold the first occurrence of their key
FirstOccurrences ==
  {i \in 1..Len(cleaned) :
     \A j \in 1..(i-1) : toLowerCase(cleaned[j]) # toLowerCase(cleaned[i])}

\* C3: the bullets are the first occurrences of the candidates, in source
\* order: a removed duplicate is a later occurrence, and the bullets that
\* remain keep their relative order.
C3_OrderPreserved ==
  segPc # "input" =>
    /\ Len(bullets) = Cardinality(FirstOccurrences)
    /\ \A k \in 1..Len(bullets) :
         \E i \in FirstOccurrences :
           /\ Cardinality({j \in FirstOccurrences : j <= i}) = k
           /\ bullets[k] = cleaned[i]

\* a duplicate was removed from between two bullets that were kept
C3_Witness ==
  /\ segPc = "segmented"
  /\ Len(bullets) >= 2
  /\ \E i \in 1..Len(cleaned) :
       i \notin FirstOccurrences /\ i < Len(cleaned) /\ Len(cleaned) \in FirstOccurrences

(* ------------------------------------------------------------------------ *)
(* SpecActions: parseActionItems, detectActionIssues and formatActionItems   *)
(* on bounded bullet lists                                                   *)
(* ------------------------------------------------------------------------ *)

MaxBullets == 2

SampleBullets ==
  { <<"h","e","l","l","o"," ","w","o","r","l","d">>, <<"S","e","n","d"," ","r","e","p","o","r","t"," ","b","y"," ","F","r","i","d","a","y">>, <<"c","a","l","l","b","a","c","k"," ","t","o","m","o","r","r","o","w">>,
    <<"B","o","b"," ","w","i","l","l"," ","c","a","l","l"," ","@","a","l">>, <<"t","o","u","c","h"," ","b","a","s","e"," ","-"," ","s","o","o","n">>, <<"S","h","i","p"," ","i","t"," ","(","u","r","g","e","n","t",")">>,
    <<"n","o","t","e","s"," ","o","n","l","y">>, <<"o","w","n","e","r",":"," ","A","l"," ","B","o"," ","w","i","l","l"," ","r","e","v","i","e","w"," ","2","0","2","4","-","0","1","-","0","2">>,
    <<"E","m","a","i","l"," ","@","s","a","m",","," ","o","w","n","e","r",":"," ","A","l">>, <<"C","a","l","l",","," ","o","w","n","e","r",":"," ","A","l",","," ","a","s","s","i","g","n","e","d"," ","t","o"," ","B","o">>, <<"B","o","b"," ","w","i","l","l"," ","c","a","l","l",","," ","a","s","s","i","g","n","e","d"," ","t","o"," ","A","l">>,
    <<"B","o","b"," ","w","i","l","l"," ","c","a","l","l"," ","a","n","d"," ","I"," ","w","i","l","l"," ","e","m","a","i","l">>, <<"I"," ","w","i","l","l"," ","c","a","l","l"," ","a","n","d"," ","w","e"," ","w","i","l","l"," ","e","m","a","i","l">>, <<"w","e"," ","w","i","l","l"," ","c","a","l","l">>,
    <<"k","i","w","i"," ","w","i","l","l"," ","c","a","l","l">>, <<"d","i","s","c","u","s","s"," ","f","o","l","l","o","w"," ","u","p","s">> }

\* six bullets none of which names an action
PlainSix == <<<<"o","n","e">>, <<"t","w","o">>, <<"t","h","r","e","e">>, <<"f","o","u","r">>, <<"f","i","v","e">>, <<"s","i","x">>>>

ActInputs == StringsUpTo(SampleBullets, MaxBullets) \cup {PlainSix}

ActInit ==
  /\ actBullets \in ActInputs
  /\ items = <<>>
  /\ issues = <<>>
  /\ formatted = <<>>
  /\ summary = <<>>
  /\ actPc = "input"
  /\ SegIdle /\ EmailIdle /\ GenIdle /\ AppIdle

ParseActionItems ==
  /\ actPc = "input"
  /\ items' = parseActionItems(actBullets)
  /\ actPc' = "parsed"
  /\ UNCHANGED <<actBullets, issues, formatted, summary, segVars, emailVars, genVars, appVars>>

DetectActionIssues ==
  /\ actPc = "parsed"
  /\ issues' = detectActionIssues(items)
  /\ actPc' = "detected"
  /\ UNCHANGED <<actBullets, items, formatted, summary, segVars, emailVars, genVars, appVars>>

FormatActionItems ==
  /\ actPc = "detected"
  /\ formatted' = formatActionItems(items, issues)
  /\ actPc' = "formatted"
  /\ UNCHANGED <<actBullets, items, issues, summary, segVars, emailVars, genVars, appVars>>

ActNext == ParseActionItems \/ DetectActionIssues \/ FormatActionItems

SpecActions == ActInit /\ [][ActNext]_vars

(* ------------------------------------------------------------------------ *)
(* SpecIssues: detectActionIssues and formatActionItems on bounded items     *)
(* ------------------------------------------------------------------------ *)

MaxTokens == 3

OwnerTokens ==
  { <<"i"," ","w","i","l","l">>, <<"w","e"," ","w","i","l","l">>, <<"I"," ","W","i","l","l">>, <<"@">>, <<"o","w","n","e","r",":">>, <<"a","s","s","i","g","n","e","d"," ","t","o">>, <<"k">>, <<" ">> }

RECURSIVE TokenTexts(_)
TokenTexts(n) ==
  IF n = 0 THEN {<<>>}
  ELSE LET shorter == TokenTexts(n - 1)
       IN shorter \cup {s \o t : s \in shorter, t \in OwnerTokens}

\* an owner that is absent, empty or a name
OwnerFields == {None, Some(<<>>), Some(<<"A","l">>)}

FirstItems ==
  {[text |-> t, owner |-> o, due |-> None, notes |-> None] :
     t \in TokenTexts(MaxTokens), o \in OwnerFields}

SecondItems ==
  { [text |-> <<"k","i","w","i"," ","w","i","l","l">>, owner |-> None, due |-> None, notes |-> None],
    [text |-> <<"I"," ","w","i","l","l">>, owner |-> None, due |-> Some(<<"e","o","d">>), notes |-> Some(<<"n">>)] }

IssueInputs ==
  {<<>>} \cup {<<a>> : a \in FirstItems} \cup {<<a, b>> : a \in FirstItems, b \in SecondItems}

IssuesInit ==
  /\ actBullets = <<>>
  /\ items \in IssueInputs
  /\ issues = <<>>
  /\ formatted = <<>>
  /\ summary = <<>>
  /\ actPc = "parsed"
  /\ SegIdle /\ EmailIdle /\ GenIdle /\ AppIdle

IssuesNext == DetectActionIssues \/ FormatActionItems

SpecIssues == IssuesInit /\ [][IssuesNext]_vars

(* ------------------------------------------------------------------------ *)
(* Claims about parseActionItems and detectActionIssues                      *)
(* ------------------------------------------------------------------------ *)

\* an item made of a bullet alone
PlainItem(b) == [text |-> b, owner |-> None, due |-> None, notes |-> None]

\* C4: for every non-empty list of bullets parseActionItems returns a
\* non-empty list, and when no bullet qualifies as an action it returns the
\* first min(5, len(bullets)) bullets, in order, as items with no owner, due
\* or notes.
C4_FallbackGuarantee ==
  (actPc \in {"parsed", "detected", "formatted"} /\ actBullets # <<>>) =>
    /\ items # <<>>
    /\ (\A k \in 1..Len(actBullets) : ~looksLikeAction(actBullets[k])) =>
         items = [k \in 1..(IF Len(actBullets) < 5 THEN Len(actBullets) ELSE 5) |->
                    PlainItem(actBullets[k])]

\* the phrase occurs in s, letters compared without case
OccursIn(s, phrase) ==
  \E i \in 1..(Len(s) - Len(phrase) + 1) : MatchAtCI(s, phrase, i)

\* the phrase occurs in s as whole words: neither the character before the
\* occurrence nor the one after it is a letter, a digit or an underscore
OccursAsWords(s, phrase) ==
  \E i \in 1..(Len(s) - Len(phrase) + 1) :
    /\ MatchAtCI(s, phrase, i)
    /\ (i = 1 \/ s[i-1] \notin WordCharSet)
    /\ (i + Len(phrase) > Len(s) \/ s[i + Len(phrase)] \notin WordCharSet)

\* the owner indications of C5 as stated: an owner field, or one of the five
\* phrases as a substring
OwnerIndicatedAsStated(item) ==
  \/ IsSome(item.owner)
  \/ \E p \in {<<"@">>, <<"o","w","n","e","r",":">>, <<"a","s","s","i","g","n","e","d"," ","t","o">>, <<"i"," ","w","i","l","l">>, <<"w","e"," ","w","i","l","l">>} :
       OccursIn(item.text, p)

\* the owner indications of C5 as amended: a non-empty owner field, one of
\* "@", "owner:", "assigned to" as a substring, or "i will" / "we will" as
\* whole words
OwnerIndicated(item) ==
  \/ (IsSome(item.owner) /\ ValueOf(item.owner) # <<>>)
  \/ \E p \in {<<"@">>, <<"o","w","n","e","r",":">>, <<"a","s","s","i","g","n","e","d"," ","t","o">>} : OccursIn(item.text, p)
  \/ \E p \in {<<"i"," ","w","i","l","l">>, <<"w","e"," ","w","i","l","l">>} : OccursAsWords(item.text, p)

\* the number of missingOwner issues emitted for the text t
MissingOwnerIssues(t) ==
  Cardinality({k \in 1..Len(issues) :
                 /\ issues[k].type = "missingOwner"
                 /\ issues[k].message = <<"M","i","s","s","i","n","g"," ","o","w","n","e","r",":"," ","\"">> \o t \o <<"\"">>})

\* C5 as stated: detectActionIssues emits a missingOwner issue for an item
\* if and only if the item has no owner field and its text contains none of
\* @, owner:, assigned to, i will, we will (case-insensitive substrings).
C5_MissingOwnerAsStated ==
  actPc \in {"detected", "formatted"} =>
    \A n \in 1..Len(items) :
      MissingOwnerIssues(items[n].text)
        = Cardinality({k \in 1..Len(items) :
                         items[k].text = items[n].text /\ ~OwnerIndicatedAsStated(items[k])})

\* C5 as amended: detectActionIssues emits a missingOwner issue for an item if
\* and only if the item's owner is absent or empty, its text contains none of
\* @, owner:, assigned to as a case-insensitive substring, and contains
\* neither "i will" nor "we will" as whole words (case-insensitive).
C5_MissingOwnerIff ==
  actPc \in {"detected", "formatted"} =>
    /\ \A n \in 1..Len(items) :
         MissingOwnerIssues(items[n].text)
           = Cardinality({k \in 1..Len(items) :
                            items[k].text = items[n].text /\ ~OwnerIndicated(items[k])})
    /\ Cardinality({k \in 1..Len(issues) : issues[k].type = "missingOwner"})
         = Cardinality({k \in 1..Len(items) : ~OwnerIndicated(items[k])})

\* two items were checked: the first names its owner by "we will" as whole
\* words and drew no issue, the second holds "i will" only inside "kiwi will"
\* and drew one
C5_Witness ==
  /\ actPc = "detected"
  /\ Len(items) = 2
  /\ ~IsSome(items[1].owner) /\ ~IsSome(items[2].owner)
  /\ OccursAsWords(items[1].text, <<"w","e"," ","w","i","l","l">>)
  /\ ~OccursIn(items[1].text, <<"@">>)
  /\ OccursIn(items[2].text, <<"i"," ","w","i","l","l">>) /\ ~OwnerIndicated(items[2])
  /\ MissingOwnerIssues(items[1].text) = 0
  /\ MissingOwnerIssues(items[2].text) = 1

(* ------------------------------------------------------------------------ *)
(* SpecEmail: makeEmailDraft and makeFollowUpEmailDraftFromHighlights on      *)
(* bounded arguments                                                         *)
(* ------------------------------------------------------------------------ *)

MaxHighlights == 2

EmailTypeFields == {None} \cup {Some(t) : t \in EmailTypes}
EmailToneFields == {None} \cup {Some(t) : t \in EmailTones}

SevenBullets == <<<<"a">>, <<"b">>, <<"c">>, <<"d">>, <<"e">>, <<"f">>, <<"g">>>>

DraftOpts ==
  [type : EmailTypeFields,
   tone : EmailToneFields,
   subjectOverride : {None, Some(<<" "," ">>), Some(<<" ","R","e",":"," ","x"," ">>)},
   contextLines : {<<>>, << <<>>, <<"c">> >>},
   maxBullets : {None, Some(2), Some(0), Some(-1)}]

NoOpts ==
  [type |-> None, tone |-> None, subjectOverride |-> None, contextLines |-> <<>>,
   maxBullets |-> None]

SampleHighlights ==
  { [text |-> <<"C","o","n","f","i","r","m"," ","b","u","d","g","e","t">>, tag |-> Some(<<"U","r","g","e","n","t">>)],
    [text |-> <<" ","x"," ">>, tag |-> Some(<<"N","o","n","e">>)],
    [text |-> <<" "," ">>, tag |-> Some(<<"U","r","g","e","n","t">>)],
    [text |-> <<"y">>, tag |-> None],
    [text |-> <<"a","\n","b">>, tag |-> Some(<<" ","R","i","s","k"," ">>)] }

Filler == [text |-> <<"f">>, tag |-> Some(<<"D","e","c","i","s","i","o","n">>)]
Blank == [text |-> <<" ">>, tag |-> Some(<<"D","e","c","i","s","i","o","n">>)]
Fill(h, n) == <<>> \o [i \in 1..n |-> h]

\* short lists; lists that reach the limit of 20 bullets; lists that reach the
\* limit of 50 highlights, with and without bullets to spare
HighlightLists ==
  LET short == StringsUpTo(SampleHighlights, MaxHighlights)
      shorter == StringsUpTo(SampleHighlights, MaxHighlights - 1)
  IN short
     \cup {Fill(Filler, FollowUpMaxBullets - 1) \o l : l \in short}
     \cup {Fill(Filler, MaxHighlightsUsed) \o l : l \in shorter}
     \cup {Fill(Blank, MaxHighlightsUsed - 1) \o l : l \in short}

\* every list of highlights with few of the other fields, and every
\* combination of the other fields with few lists of highlights
FollowUpArgs ==
  [highlights : HighlightLists,
   followUpType : {None, Some(<<" ","P","h","o","n","e"," ","C","a","l","l">>), Some(<<" ">>)},
   focusPrompt : {None},
   emailPrompt : {None},
   meetingResult : {None, Some(<<"P","e","n","d","i","n","g">>), Some(<<"W","o","n">>)},
   meetingOutcome : {None},
   emailType : {None, Some("concern")},
   emailTone : {None, Some("warm")}]
  \cup
  [highlights : {<<>>, <<[text |-> <<"C","o","n","f","i","r","m"," ","b","u","d","g","e","t">>, tag |-> Some(<<"U","r","g","e","n","t">>)]>>},
   followUpType : {None, Some(<<" ","P","h","o","n","e"," ","C","a","l","l">>), Some(<<" ">>)},
   focusPrompt : {None, Some(<<"p","r","i","c","i","n","g"," ">>), Some(<<" ","\n">>)},
   emailPrompt : {None, Some(<<"b","e"," ","b","r","i","e","f">>)},
   meetingResult : {None, Some(<<"P","e","n","d","i","n","g">>), Some(<<" ","W","o","n">>), Some(<<"p","e","n","d","i","n","g">>)},
   meetingOutcome : {None, Some(<<"a","g","r","e","e","d">>), Some(<<>>)},
   emailType : {None, Some("concern")},
   emailTone : {None, Some("warm")}]

NoArgs ==
  [highlights |-> <<>>, followUpType |-> None, focusPrompt |-> None, emailPrompt |-> None,
   meetingResult |-> None, meetingOutcome |-> None, emailType |-> None, emailTone |-> None]

EmailInit ==
  /\ \/ \E b \in {<<>>, <<<<"a">>>>, SevenBullets}, o \in DraftOpts :
          emailCall = [fn |-> "makeEmailDraft", bullets |-> b, opts |-> o, args |-> NoArgs]
     \/ \E a \in FollowUpArgs :
          emailCall = [fn |-> "makeFollowUpEmailDraftFromHighlights", bullets |-> <<>>,
                       opts |-> NoOpts, args |-> a]
  /\ emailDraft = <<>>
  /\ emailPc = "called"
  /\ SegIdle /\ ActIdle /\ GenIdle /\ AppIdle

MakeEmailDraft ==
  /\ emailPc = "called"
  /\ emailCall.fn = "makeEmailDraft"
  /\ emailDraft' = makeEmailDraft(emailCall.bullets, emailCall.opts)
  /\ emailPc' = "returned"
  /\ UNCHANGED <<emailCall, segVars, actVars, genVars, appVars>>

MakeFollowUpEmailDraftFromHighlights ==
  /\ emailPc = "called"
  /\ emailCall.fn = "makeFollowUpEmailDraftFromHighlights"
  /\ emailDraft' = makeFollowUpEmailDraftFromHighlights(emailCall.args)
  /\ emailPc' = "returned"
  /\ UNCHANGED <<emailCall, segVars, actVars, genVars, appVars>>

EmailNext == MakeEmailDraft \/ MakeFollowUpEmailDraftFromHighlights

SpecEmail == EmailInit /\ [][EmailNext]_vars

(* ------------------------------------------------------------------------ *)
(* Claims about the email drafts                                             *)
(* ------------------------------------------------------------------------ *)

\* the parts of a returned draft, read off its lines
SubjectOf(lines) == From(lines[2], Len(<<"S","u","b","j","e","c","t",":"," ">>) + 1)
GreetingOf(lines) == lines[4]
ClosingOf(lines) == lines[Len(lines)]

\* the bullet lines of a draft: the lines that follow the intro line of type
\* t, up to the next empty line
BulletLinesOf(lines, t) ==
  LET intro == firstAtOrAfter({i \in 1..Len(lines) : lines[i] = introByType[t]}, 1)
      stop == firstAtOrAfter({i \in 1..Len(lines) : lines[i] = <<>>}, intro)
  IN SubSeq(lines, intro + 1, stop - 1)

DraftReturned == emailPc = "returned" /\ emailCall.fn = "makeEmailDraft"
FollowUpReturned ==
  emailPc = "returned" /\ emailCall.fn = "makeFollowUpEmailDraftFromHighlights"

\* C6: for each of the 5 email types and each of the 4 tones (an absent type or
\* tone standing for its default), the draft of makeEmailDraft carries the
\* greeting and the closing of the tone's table entry and, unless a
\* subjectOverride replaces it, the subject of the type's table entry; each of
\* them is non-empty and the draft starts with its subject line.
C6_TemplateComplete ==
  DraftReturned =>
    LET type == orElse(emailCall.opts.type, "followUp")
        tone == orElse(emailCall.opts.tone, "professional")
        lines == splitLines(emailDraft)
    IN /\ type \in EmailTypes /\ tone \in EmailTones
       /\ lines[1] = <<"E","m","a","i","l"," ","D","r","a","f","t">>
       /\ startsWith(lines[2], <<"S","u","b","j","e","c","t",":"," ">>)
       /\ GreetingOf(lines) = greetingByTone[tone] /\ GreetingOf(lines) # <<>>
       /\ ClosingOf(lines) = closingByTone[tone] /\ ClosingOf(lines) # <<>>
       /\ ~IsSome(emailCall.opts.subjectOverride) =>
            (SubjectOf(lines) = subjectByType[type] /\ SubjectOf(lines) # <<>>)
       /\ IsSome(emailCall.opts.subjectOverride) =>
            SubjectOf(lines) = trim(ValueOf(emailCall.opts.subjectOverride))

\* a draft of type actionClarification in the casual tone, no subject
\* override, came back with the three parts of its table entries
C6_Witness ==
  /\ DraftReturned
  /\ emailCall.opts.type = Some("actionClarification")
  /\ emailCall.opts.tone = Some("casual")
  /\ ~IsSome(emailCall.opts.subjectOverride)
  /\ LET lines == splitLines(emailDraft)
     IN /\ SubjectOf(lines) = <<"C","l","a","r","i","f","i","c","a","t","i","o","n"," ","N","e","e","d","e","d"," ","O","n"," ","A","n"," ","A","c","t","i","o","n"," ","I","t","e","m">>
        /\ GreetingOf(lines) = <<"H","e","y",",">>
        /\ ClosingOf(lines) = <<"T","h","a","n","k","s",",">>

\* the highlight of the scenario of C7
UrgentBudget == [text |-> <<"C","o","n","f","i","r","m"," ","b","u","d","g","e","t">>, tag |-> Some(<<"U","r","g","e","n","t">>)]

C7_Scenario ==
  /\ FollowUpReturned
  /\ emailCall.args.highlights = <<UrgentBudget>>
  /\ emailCall.args.emailType = Some("concern")
  /\ emailCall.args.emailTone = Some("warm")

HasText(h) == trim(h.text) # <<>>
TagOf(h) == trim(orElse(h.tag, <<>>))

\* the line "- [tag] text" (tag and text trimmed)
TaggedLine(h) == <<"-"," ","[">> \o TagOf(h) \o <<"]"," ">> \o trim(h.text)

\* the number of entries of seq equal to x
CountOf(seq, x) == Cardinality({i \in 1..Len(seq) : seq[i] = x})

\* C7 as stated: in the scenario the draft has exactly one bullet line,
\* "[Urgent] Confirm budget", the greeting "Hi there," and the closing
\* "Thanks so much,"; in general each highlight with a tag other than None
\* yields exactly one bullet line of the form [tag] text.
C7_FollowUpAsStated ==
  /\ C7_Scenario =>
       LET lines == splitLines(emailDraft)
       IN /\ BulletLinesOf(lines, "concern") = <<<<"-"," ","[","U","r","g","e","n","t","]"," ","C","o","n","f","i","r","m"," ","b","u","d","g","e","t">>>>
          /\ GreetingOf(lines) = <<"H","i"," ","t","h","e","r","e",",">>
          /\ ClosingOf(lines) = <<"T","h","a","n","k","s"," ","s","o"," ","m","u","c","h",",">>
  /\ FollowUpReturned =>
       LET hs == emailCall.args.highlights
           lines == BulletLinesOf(splitLines(emailDraft),
                                  orElse(emailCall.args.emailType, "followUp"))
       IN \A i \in 1..Len(hs) :
            TagOf(hs[i]) # <<"N","o","n","e">> =>
              CountOf(lines, TaggedLine(hs[i])) = CountOf(hs, hs[i])

\* the highlights that become bullets: of the first 50, those with a
\* non-blank text, and of these the first 20
KeptHighlights(hs) ==
  slice0(SelectSeq(slice0(hs, 50), HasText), 20)

\* the bullet a kept highlight becomes
ExpectedBullet(h) ==
  IF TagOf(h) # <<>> /\ TagOf(h) # <<"N","o","n","e">>
  THEN <<"[">> \o TagOf(h) \o <<"]"," ">> \o trim(h.text)
  ELSE trim(h.text)

\* C7 as amended: in the scenario the draft has exactly one bullet line,
\* "- [Urgent] Confirm budget", the greeting "Hi There," and the closing
\* "Thanks So Much,"; in general the bullets of the draft are, in order, those
\* of the highlights with a non-blank text among the first 50 highlights, cut
\* to the first 20, each being "- [tag] text" (tag and text trimmed) when the
\* tag is neither empty nor "None" and "- text" otherwise, so that such a
\* highlight whose text has no line break yields exactly one bullet line.
C7_FollowUpBullets ==
  /\ C7_Scenario =>
       LET lines == splitLines(emailDraft)
       IN /\ BulletLinesOf(lines, "concern") = <<<<"-"," ","[","U","r","g","e","n","t","]"," ","C","o","n","f","i","r","m"," ","b","u","d","g","e","t">>>>
          /\ GreetingOf(lines) = <<"H","i"," ","T","h","e","r","e",",">>
          /\ ClosingOf(lines) = <<"T","h","a","n","k","s"," ","S","o"," ","M","u","c","h",",">>
  /\ FollowUpReturned =>
       LET kept == KeptHighlights(emailCall.args.highlights)
           lines == BulletLinesOf(splitLines(emailDraft),
                                  orElse(emailCall.args.emailType, "followUp"))
       IN /\ kept # <<>> =>
               lines = splitLines(join([i \in 1..Len(kept) |-> <<"-"," ">> \o ExpectedBullet(kept[i])],
                                       <<"\n">>))
          /\ (kept = <<>> /\ emailCall.args.highlights # <<>>) =>
               lines = <<<<"-"," ","(","N","o"," ","N","o","t","e","s"," ","P","r","o","v","i","d","e","d",")">>>>
          /\ emailCall.args.highlights = <<>> =>
               lines = <<<<"-"," ","(","N","o"," ","F","o","l","l","o","w","-","U","p"," ","I","t","e","m","s"," ","S","e","l","e","c","t","e","d"," ","Y","e","t",")">>>>

\* the draft of the scenario came back
C7_Witness ==
  /\ C7_Scenario
  /\ LET lines == splitLines(emailDraft)
     IN /\ BulletLinesOf(lines, "concern") = <<<<"-"," ","[","U","r","g","e","n","t","]"," ","C","o","n","f","i","r","m"," ","b","u","d","g","e","t">>>>
        /\ GreetingOf(lines) = <<"H","i"," ","T","h","e","r","e",",">>
        /\ ClosingOf(lines) = <<"T","h","a","n","k","s"," ","S","o"," ","M","u","c","h",",">>

(* ------------------------------------------------------------------------ *)
(* SpecGenerate: POST /api/generate and the page's generateViaApi             *)
(* ------------------------------------------------------------------------ *)

\* n characters of one line
Pad(n) == <<>> \o [i \in 1..n |-> "x"]

\* what a post-meeting section of one character adds to non-empty raw notes
PostSectionChars ==
  Len(buildMergedNotes([rawNotes |-> <<"x">>, postMeetingNotes |-> <<"p">>,
                        meetingOutcome |-> <<>>])) - 1

SmallNotes ==
  { None, Some(<<>>), Some(<<" ","\n">>), Some(<<"S","e","n","d"," ","i","t">>), Some(<<"-"," ","a","\n","*"," ","b">>),
    Some(<<" ","f","i","x"," ","x"," ","t","o","m","o","r","r","o","w"," ">>), Some(<<"h","e","l","l","o"," ","w","o","r","l","d">>), Some(<<"1","."," ","I"," ","w","i","l","l"," ","c","a","l","l"," ","A","l","\n","2","."," ","o","k">>) }

\* raw notes around the ceiling, alone and once a section is added
BigNotes ==
  { Some(Pad(MAX_MERGED_CHARS + 1)), Some(Pad(MAX_MERGED_CHARS)),
    Some(Pad(MAX_MERGED_CHARS - PostSectionChars + 1)),
    Some(Pad(MAX_MERGED_CHARS - PostSectionChars)) }

\* the bodies sent: None is a body that is not JSON
GenRequests ==
  {None}
  \cup {Some([rawNotes |-> r, postMeetingNotes |-> p, meetingOutcome |-> o]) :
          r \in SmallNotes, p \in {None, Some(<<" ">>), Some(<<"p">>)},
          o \in {None, Some(<<"\n">>), Some(<<"o">>)}}
  \cup {Some([rawNotes |-> r, postMeetingNotes |-> p, meetingOutcome |-> o]) :
          r \in BigNotes, p \in {None, Some(<<"p">>)}, o \in {None, Some(<<"o">>)}}

GenInit ==
  /\ request \in GenRequests
  /\ response = <<>>
  /\ calls = <<>>
  /\ clientOutputs = <<>>
  /\ genPc = "request"
  /\ SegIdle /\ ActIdle /\ EmailIdle /\ AppIdle

Post ==
  /\ genPc = "request"
  /\ \E r \in {POST(request)} :
       /\ response' = [status |-> r.status, ok |-> r.ok, error |-> r.error,
                       outputs |-> r.outputs]
       /\ calls' = r.calls
  /\ genPc' = "responded"
  /\ UNCHANGED <<request, clientOutputs, segVars, actVars, emailVars, appVars>>

GenerateViaApi ==
  /\ genPc = "responded"
  /\ clientOutputs' = generateViaApi(response)
  /\ genPc' = "received"
  /\ UNCHANGED <<request, response, calls, segVars, actVars, emailVars, appVars>>

GenNext == Post \/ GenerateViaApi

SpecGenerate == GenInit /\ [][GenNext]_vars

(* ------------------------------------------------------------------------ *)
(* Claims about POST /api/generate                                           *)
(* ------------------------------------------------------------------------ *)

\* the handler answered a request whose body was JSON
Answered == genPc \in {"responded", "received"} /\ IsSome(request)

\* a field of the body after trimming ("" when absent)
Trimmed(field) == trim(orElse(field, <<>>))

\* the length of the merged input: the trimmed raw notes, then the
\* post-meeting notes section and the meeting outcome section when non-empty
MergedChars ==
  LET raw == Trimmed(ValueOf(request).rawNotes)
      post == Trimmed(ValueOf(request).postMeetingNotes)
      outcome == Trimmed(ValueOf(request).meetingOutcome)
      sections == (IF raw # <<>> THEN 1 ELSE 0) + (IF post # <<>> THEN 3 ELSE 0)
                  + (IF outcome # <<>> THEN 3 ELSE 0)
  IN Len(raw)
     + (IF post # <<>> THEN Len(<<"#","#"," ","P","o","s","t","-","M","e","e","t","i","n","g"," ","N","o","t","e","s">>) + Len(post) ELSE 0)
     + (IF outcome # <<>> THEN Len(<<"#","#"," ","M","e","e","t","i","n","g"," ","O","u","t","c","o","m","e">>) + Len(outcome) ELSE 0)
     + (IF sections > 0 THEN sections - 1 ELSE 0)

AllEmpty ==
  /\ Trimmed(ValueOf(request).rawNotes) = <<>>
  /\ Trimmed(ValueOf(request).postMeetingNotes) = <<>>
  /\ Trimmed(ValueOf(request).meetingOutcome) = <<>>

\* C8: when the merged input is longer than 50,000 characters the request is
\* rejected with the size error (413) and no function of the pipeline is
\* called; a non-empty merged input of at most 50,000 characters, the one of
\* exactly 50,000 included, is accepted and goes through the pipeline.
C8_SizeCeiling ==
  Answered =>
    /\ MergedChars > 50000 => (response.status = 413 /\ ~response.ok /\ calls = <<>>)
    /\ (MergedChars <= 50000 /\ ~AllEmpty) =>
         (response.status = 200 /\ response.ok /\ calls = pipelineCalls)

\* a request whose raw notes alone fit but whose merged input is one character
\* over the ceiling was turned away
C8_Witness ==
  /\ Answered
  /\ Len(Trimmed(ValueOf(request).rawNotes)) <= 50000
  /\ MergedChars = 50001
  /\ response.status = 413
  /\ calls = <<>>

\* C9: the request is rejected with the validation error (400), the pipeline
\* not run, exactly when rawNotes, postMeetingNotes and meetingOutcome are all
\* empty after trimming.
C9_EmptyRejected ==
  Answered =>
    /\ response.status = 400 <=> AllEmpty
    /\ response.status = 400 => (~response.ok /\ calls = <<>>)

\* a request whose three fields are present but blank was rejected
C9_Witness ==
  /\ Answered
  /\ IsSome(ValueOf(request).rawNotes) /\ ValueOf(ValueOf(request).rawNotes) # <<>>
  /\ IsSome(ValueOf(request).postMeetingNotes)
  /\ IsSome(ValueOf(request).meetingOutcome)
  /\ AllEmpty
  /\ response.status = 400
  /\ calls = <<>>

\* C10: in every successful response of /api/generate the email output is
\* the empty string, and so is the email of the outputs generateViaApi hands
\* to the page.
C10_EmailEmpty ==
  /\ (genPc \in {"responded", "received"} /\ response.ok) =>
       (IsSome(response.outputs) /\ ValueOf(response.outputs).email = <<>>)
  /\ (genPc = "received" /\ IsSome(clientOutputs)) => ValueOf(clientOutputs).email = <<>>

\* a request was answered with a summary and action items, and no email
C10_Witness ==
  /\ genPc = "received"
  /\ response.ok
  /\ includes(ValueOf(response.outputs).summary, <<"S","u","m","m","a","r","y">>)
  /\ includes(ValueOf(response.outputs).actionItems, <<"A","c","t","i","o","n"," ","I","t","e","m","s">>)
  /\ ValueOf(response.outputs).email = <<>>
  /\ IsSome(clientOutputs)

(* ------------------------------------------------------------------------ *)
(* SpecRender: toBullets on blank texts, makeSummary on bounded bullet lists, *)
(* formatActionItems on bounded items with issues given independently         *)
(* ------------------------------------------------------------------------ *)

MaxBlankLen == 2
MaxNotes == 8
MaxRenderItems == 2
MaxIssues == 10

RenderTexts == StringsUpTo({" ", "\n", "\t", "a"}, MaxBlankLen)

\* the bullets "note 1" .. "note n"
NoteList(n) == <<>> \o [i \in 1..n |-> <<"n","o","t","e"," ">> \o numberToString(i)]

\* n issues with the messages "m1" .. "mn"
IssueList(n) ==
  <<>> \o [i \in 1..n |-> [type |-> "vague", message |-> <<"m">> \o numberToString(i)]]

RenderItemSamples ==
  { [text |-> <<"S","e","n","d"," ","i","t">>, owner |-> None, due |-> None, notes |-> None],
    [text |-> <<"C","a","l","l"," ","A","l">>, owner |-> Some(<<"A","l">>), due |-> Some(<<"e","o","d">>), notes |-> Some(<<"a","s","k"," ","B","o">>)],
    [text |-> <<"x">>, owner |-> Some(<<>>), due |-> Some(<<>>), notes |-> Some(<<>>)] }

RenderInit ==
  /\ \/ /\ text \in RenderTexts
        /\ actBullets = <<>>
        /\ items = <<>>
        /\ issues \in {<<>>, IssueList(1)}
     \/ /\ text = <<>>
        /\ actBullets \in {NoteList(n) : n \in 0..MaxNotes}
        /\ items = <<>>
        /\ issues = <<>>
     \/ /\ text = <<>>
        /\ actBullets = <<>>
        /\ items \in StringsUpTo(RenderItemSamples, MaxRenderItems)
        /\ issues \in {IssueList(k) : k \in 0..MaxIssues}
  /\ cleaned = <<>> /\ bullets = <<>> /\ rebullets = <<>> /\ segPc = "input"
  /\ formatted = <<>>
  /\ summary = <<>>
  /\ actPc = "detected"
  /\ EmailIdle /\ GenIdle /\ AppIdle

MakeSummary ==
  /\ actPc = "formatted"
  /\ summary' = makeSummary(actBullets)
  /\ actPc' = "summarized"
  /\ UNCHANGED <<actBullets, items, issues, formatted, segVars, emailVars, genVars, appVars>>

RenderNext == Segment \/ FormatActionItems \/ MakeSummary

SpecRender == RenderInit /\ [][RenderNext]_vars

(* ------------------------------------------------------------------------ *)
(* Claims about the rendered outputs                                         *)
(* ------------------------------------------------------------------------ *)

IsBlank(t) == \A i \in 1..Len(t) : t[i] \in SpaceChars

\* C11: toBullets of an empty or whitespace-only text is the empty list;
\* makeSummary of an empty bullet list is exactly "No notes provided.";
\* formatActionItems of an empty item list is exactly
\* "No obvious action items found.", whatever the issues.
C11_EmptyInputs ==
  /\ (segPc = "segmented" /\ IsBlank(text)) => bullets = <<>>
  /\ (actPc = "summarized" /\ actBullets = <<>>) => summary = <<"N","o"," ","n","o","t","e","s"," ","p","r","o","v","i","d","e","d",".">>
  /\ (actPc \in {"formatted", "summarized"} /\ items = <<>>) =>
       formatted = <<"N","o"," ","o","b","v","i","o","u","s"," ","a","c","t","i","o","n"," ","i","t","e","m","s"," ","f","o","u","n","d",".">>

\* a blank text of two characters, an empty bullet list and an empty item
\* list with one issue have all been rendered
C11_Witness ==
  /\ segPc = "segmented" /\ Len(text) = 2 /\ IsBlank(text) /\ bullets = <<>>
  /\ actPc = "summarized" /\ actBullets = <<>> /\ summary = <<"N","o"," ","n","o","t","e","s"," ","p","r","o","v","i","d","e","d",".">>
  /\ items = <<>> /\ issues # <<>> /\ formatted = <<"N","o"," ","o","b","v","i","o","u","s"," ","a","c","t","i","o","n"," ","i","t","e","m","s"," ","f","o","u","n","d",".">>

\* the smaller of two numbers
Least(a, b) == IF a < b THEN a ELSE b

\* the lines C12 describes for the bullets bs
ExpectedSummaryLines(bs) ==
  LET n == Len(bs)
  IN << <<"S","u","m","m","a","r","y">>, <<>> >>
     \o [i \in 1..Least(6, n) |-> <<"-"," ">> \o bs[i]]
     \o (IF n > 6
         THEN << <<>>,
                 IF n = 7 THEN <<"(","1"," ","a","d","d","i","t","i","o","n","a","l"," ","n","o","t","e",")">>
                 ELSE <<"(">> \o numberToString(n - 6) \o <<" ","a","d","d","i","t","i","o","n","a","l"," ","n","o","t","e","s",")">> >>
         ELSE <<>>)

\* C12: the summary of a non-empty list of n bullets is a header, the first
\* min(6, n) bullets in order as dash lines and, if and only if n > 6, a count
\* note stating n - 6: "1 additional note" when n = 7, "N additional notes"
\* otherwise.
C12_SummaryShape ==
  (actPc = "summarized" /\ actBullets # <<>>) =>
    splitLines(summary) = ExpectedSummaryLines(actBullets)

\* a list of seven bullets was summarized: six dash lines and the note in the
\* singular
C12_Witness ==
  /\ actPc = "summarized"
  /\ Len(actBullets) = 7
  /\ LET lines == splitLines(summary)
     IN /\ Len(lines) = 10
        /\ lines[8] = <<"-"," ">> \o actBullets[6]
        /\ lines[10] = <<"(","1"," ","a","d","d","i","t","i","o","n","a","l"," ","n","o","t","e",")">>

\* the entry C13 describes for the item at index i
ExpectedEntryLines(item, i) ==
  << numberToString(i) \o <<"."," ">> \o item.text,
     <<" "," "," ","-"," ","O","w","n","e","r",":"," ">> \o (IF item.owner \in {None, Some(<<>>)} THEN <<"U","n","a","s","s","i","g","n","e","d">>
                          ELSE ValueOf(item.owner)),
     <<" "," "," ","-"," ","D","u","e",":"," ">> \o (IF item.due \in {None, Some(<<>>)} THEN <<"N","o"," ","d","u","e"," ","d","a","t","e">>
                        ELSE ValueOf(item.due)) >>
  \o (IF item.notes \in {None, Some(<<>>)} THEN <<>>
      ELSE <<<<" "," "," ","-"," ","N","o","t","e","s",":"," ">> \o ValueOf(item.notes)>>)

RECURSIVE ExpectedEntries(_, _)
ExpectedEntries(its, i) ==
  IF i > Len(its) THEN <<>>
  ELSE ExpectedEntryLines(its[i], i)
       \o (IF i < Len(its) THEN << <<>> >> ELSE <<>>)
       \o ExpectedEntries(its, i + 1)

\* the Checks section C13 describes for the issues iss
ExpectedChecks(iss) ==
  LET k == Len(iss)
  IN IF k = 0 THEN <<>>
     ELSE << <<>>, <<"C","h","e","c","k","s">>, <<>> >>
          \o [i \in 1..Least(8, k) |-> <<"-"," ">> \o iss[i].message]
          \o (IF k > 8 THEN <<<<"-"," ","(","+">> \o numberToString(k - 8) \o <<" ","m","o","r","e",")">>>> ELSE <<>>)

\* C13: for a non-empty item list the text is a header, one numbered entry per
\* item in order (numbered from 1) with its Owner or "Unassigned", its Due or
\* "No due date" and its notes if any; a Checks section follows if and only if
\* there is an issue, lists the first min(8, k) of the k messages in order and
\* ends with "(+N more)", N = k - 8, if and only if k > 8.
C13_ActionItemsShape ==
  (actPc \in {"formatted", "summarized"} /\ items # <<>>) =>
    splitLines(formatted)
      = << <<"A","c","t","i","o","n"," ","I","t","e","m","s">>, <<>> >> \o ExpectedEntries(items, 1) \o ExpectedChecks(issues)

\* two items were rendered with nine issues: eight listed, one counted
C13_Witness ==
  /\ actPc = "formatted"
  /\ Len(items) = 2
  /\ Len(issues) = 9
  /\ LET lines == splitLines(formatted)
     IN /\ lines[Len(lines)] = <<"-"," ","(","+","1"," ","m","o","r","e",")">>
        /\ lines[Len(lines) - 1] = <<"-"," ","m","8">>
        /\ \E i \in 1..Len(lines) : startsWith(lines[i], <<"2","."," ">>)

\* the bullets of opts.maxBullets = m (6 when absent) out of bs: the first
\* min(m, n) of them, or all but the last -m when m is negative
RenderedBullets(bs, opts) ==
  LET m == IF IsSome(opts.maxBullets) THEN ValueOf(opts.maxBullets) ELSE 6
      n == Len(bs)
      count == IF m >= 0 THEN Least(m, n) ELSE (IF n + m > 0 THEN n + m ELSE 0)
  IN SubSeq(bs, 1, count)

\* C14 as stated: at most maxBullets bullets (6 by default) are rendered, from
\* the front of the list in order; an empty list gives the single placeholder
\* line ("No notes provided"); a non-empty list gives no placeholder line.
C14_BodyAsStated ==
  DraftReturned =>
    LET bs == emailCall.bullets
        m == IF IsSome(emailCall.opts.maxBullets) THEN ValueOf(emailCall.opts.maxBullets) ELSE 6
        lines == BulletLinesOf(splitLines(emailDraft), orElse(emailCall.opts.type, "followUp"))
        placeholder == {i \in 1..Len(lines) : includes(lines[i], <<"N","o"," ","n","o","t","e","s"," ","p","r","o","v","i","d","e","d">>)}
    IN /\ bs = <<>> => (Len(lines) = 1 /\ placeholder = {1})
       /\ bs # <<>> =>
            /\ placeholder = {}
            /\ Len(lines) <= m
            /\ \A i \in 1..Len(lines) : lines[i] = <<"-"," ">> \o bs[i]

\* C14 as amended: the bullets rendered are bullets.slice(0, maxBullets), with
\* maxBullets 6 when not given: the first min(maxBullets, n) bullets in order
\* (all but the last -maxBullets when maxBullets is negative), each as a dash
\* line; the body is the single line "- (No Notes Provided)" exactly when no
\* bullet is rendered, which includes a non-empty list with maxBullets 0, and
\* that line is not rendered otherwise.
C14_BodyBullets ==
  DraftReturned =>
    LET shown == RenderedBullets(emailCall.bullets, emailCall.opts)
        lines == BulletLinesOf(splitLines(emailDraft), orElse(emailCall.opts.type, "followUp"))
    IN /\ shown = <<>> => lines = <<<<"-"," ","(","N","o"," ","N","o","t","e","s"," ","P","r","o","v","i","d","e","d",")">>>>
       /\ shown # <<>> => lines = [i \in 1..Len(shown) |-> <<"-"," ">> \o shown[i]]

\* seven bullets were drafted with no maxBullets: six dash lines, no
\* placeholder
C14_Witness ==
  /\ DraftReturned
  /\ Len(emailCall.bullets) = 7
  /\ ~IsSome(emailCall.opts.maxBullets)
  /\ LET lines == BulletLinesOf(splitLines(emailDraft), orElse(emailCall.opts.type, "followUp"))
     IN /\ Len(lines) = 6
        /\ lines[6] = <<"-"," ","f">>
        /\ \A i \in 1..6 : lines[i] # <<"-"," ","(","N","o"," ","N","o","t","e","s"," ","P","r","o","v","i","d","e","d",")">>

\* a field of the follow-up arguments after trimming ("" when absent)
FieldOf(f) == trim(orElse(f, <<>>))

\* the context lines C15 describes: one labelled line per field that is
\* non-empty once trimmed, in the fixed order, none for a Pending result
ExpectedContext(args) ==
  LET line(label, f) == IF FieldOf(f) # <<>> THEN <<<<"-"," ">> \o label \o FieldOf(f)>> ELSE <<>>
  IN line(<<"F","o","l","l","o","w","-","U","p"," ","T","y","p","e",":"," ">>, args.followUpType)
     \o (IF FieldOf(args.meetingResult) = <<"P","e","n","d","i","n","g">> THEN <<>>
         ELSE line(<<"M","e","e","t","i","n","g"," ","R","e","s","u","l","t",":"," ">>, args.meetingResult))
     \o line(<<"F","o","c","u","s",":"," ">>, args.focusPrompt)
     \o line(<<"O","u","t","c","o","m","e",":"," ">>, args.meetingOutcome)
     \o line(<<"E","m","a","i","l"," ","I","n","s","t","r","u","c","t","i","o","n","s",":"," ">>, args.emailPrompt)

\* C15: the follow-up email has one context line per field that is present and
\* non-empty (once trimmed), in the order follow-up type, meeting result, focus
\* prompt, meeting outcome, email instructions; there is no meeting-result
\* line when the result is "Pending"; with no such line there is no Context
\* block; and the subject is "Follow-Up - <follow-up type>" if and only if a
\* follow-up type is set, the subject of the email type otherwise.
C15_ContextLines ==
  FollowUpReturned =>
    LET args == emailCall.args
        type == orElse(args.emailType, "followUp")
        ctx == ExpectedContext(args)
        k == Len(ctx)
        lines == splitLines(emailDraft)
    IN /\ ctx = <<>> =>
            /\ lines[6] = introByType[type]
            /\ \A i \in 1..Len(lines) : lines[i] # <<"C","o","n","t","e","x","t">>
       /\ ctx # <<>> =>
            /\ lines[6] = <<"C","o","n","t","e","x","t">>
            /\ SubSeq(lines, 7, 6 + k) = ctx
            /\ lines[7 + k] = <<>>
            /\ lines[8 + k] = introByType[type]
       /\ FieldOf(args.followUpType) # <<>> =>
            SubjectOf(lines) = <<"F","o","l","l","o","w","-","U","p"," ","-"," ">> \o FieldOf(args.followUpType)
       /\ FieldOf(args.followUpType) = <<>> => SubjectOf(lines) = subjectByType[type]

\* a follow-up email with all five fields set came back with its five context
\* lines and the derived subject
C15_Witness ==
  /\ FollowUpReturned
  /\ Len(ExpectedContext(emailCall.args)) = 5
  /\ LET lines == splitLines(emailDraft)
     IN /\ lines[6] = <<"C","o","n","t","e","x","t">>
        /\ lines[7] = <<"-"," ","F","o","l","l","o","w","-","U","p"," ","T","y","p","e",":"," ","P","h","o","n","e"," ","C","a","l","l">>
        /\ lines[8] = <<"-"," ","M","e","e","t","i","n","g"," ","R","e","s","u","l","t",":"," ","W","o","n">>
        /\ lines[11] = <<"-"," ","E","m","a","i","l"," ","I","n","s","t","r","u","c","t","i","o","n","s",":"," ","b","e"," ","b","r","i","e","f">>
        /\ SubjectOf(lines) = <<"F","o","l","l","o","w","-","U","p"," ","-"," ","P","h","o","n","e"," ","C","a","l","l">>

\* the highlights among the first 50 that have a text, and their bullets
UsedHighlights(hs) == SelectSeq(SubSeq(hs, 1, Least(50, Len(hs))), HasText)
UsedBullets(hs) ==
  LET used == UsedHighlights(hs)
  IN [i \in 1..Len(used) |-> ExpectedBullet(used[i])]

\* the bullet lines of a draft made of the bullets bs
DashLines(bs) == splitLines(join([i \in 1..Len(bs) |-> <<"-"," ">> \o bs[i]], <<"\n">>))

\* C16 as stated: the bullets of the follow-up email are those of the first 50
\* highlights, and whenever the highlights contribute no bullet the body is the
\* single bullet "(No follow-up items selected yet)".
C16_PlaceholderAsStated ==
  FollowUpReturned =>
    LET hs == emailCall.args.highlights
        lines == BulletLinesOf(splitLines(emailDraft), orElse(emailCall.args.emailType, "followUp"))
    IN UsedHighlights(hs) = <<>> => lines = <<<<"-"," ","(","N","o"," ","f","o","l","l","o","w","-","u","p"," ","i","t","e","m","s"," ","s","e","l","e","c","t","e","d"," ","y","e","t",")">>>>

\* C16 as amended: the bullets of the follow-up email are those of the
\* highlights with a non-blank text among the first 50 highlights, "[tag] text"
\* when the trimmed tag is neither empty nor "None" and the bare text otherwise,
\* of which the first 20 are rendered; with no highlight at all the body is the
\* single bullet "(No Follow-Up Items Selected Yet)", and with highlights none
\* of which among the first 50 has a text it is "(No Notes Provided)".
C16_HighlightBullets ==
  FollowUpReturned =>
    LET hs == emailCall.args.highlights
        bs == UsedBullets(hs)
        lines == BulletLinesOf(splitLines(emailDraft), orElse(emailCall.args.emailType, "followUp"))
    IN /\ hs = <<>> => lines = <<<<"-"," ","(","N","o"," ","F","o","l","l","o","w","-","U","p"," ","I","t","e","m","s"," ","S","e","l","e","c","t","e","d"," ","Y","e","t",")">>>>
       /\ (hs # <<>> /\ bs = <<>>) => lines = <<<<"-"," ","(","N","o"," ","N","o","t","e","s"," ","P","r","o","v","i","d","e","d",")">>>>
       /\ bs # <<>> => lines = DashLines(SubSeq(bs, 1, Least(20, Len(bs))))

\* a follow-up email of 51 highlights, the 50th the only one of the first 50
\* with a text, came back with that highlight as its only bullet
C16_Witness ==
  /\ FollowUpReturned
  /\ Len(emailCall.args.highlights) = 51
  /\ HasText(emailCall.args.highlights[51])
  /\ UsedHighlights(emailCall.args.highlights) = <<UrgentBudget>>
  /\ BulletLinesOf(splitLines(emailDraft), orElse(emailCall.args.emailType, "followUp"))
       = <<<<"-"," ","[","U","r","g","e","n","t","]"," ","C","o","n","f","i","r","m"," ","b","u","d","g","e","t">>>>

(* ------------------------------------------------------------------------ *)
(* SpecFollowUp: POST /api/follow-up on bounded requests                     *)
(* ------------------------------------------------------------------------ *)

\* None is a body that is not JSON; a field that is None is absent from the
\* body; "bogus" and "Won" are values outside the enumerations
FollowUpRequests ==
  {None}
  \cup {Some([highlights |-> h, followUpType |-> f, focusPrompt |-> None,
              emailPrompt |-> None, meetingResult |-> r, meetingOutcome |-> None,
              emailType |-> t, emailTone |-> n]) :
          h \in {None} \cup {Some(l) : l \in StringsUpTo(SampleHighlights, MaxHighlights)},
          f \in {None, Some(<<" ","P","h","o","n","e"," ","C","a","l","l"," ">>)},
          r \in {None, Some(<<"C","o","m","p","l","e","t","e","d">>), Some(<<" ","C","o","m","p","l","e","t","e","d">>), Some(<<"W","o","n">>), Some(<<"P","e","n","d","i","n","g">>)},
          t \in {None, Some("concern"), Some("bogus")},
          n \in {None, Some("warm"), Some("bogus")}}

FollowUpInit ==
  /\ request \in FollowUpRequests
  /\ response = <<>>
  /\ calls = <<>>
  /\ clientOutputs = <<>>
  /\ genPc = "request"
  /\ SegIdle /\ ActIdle /\ EmailIdle /\ AppIdle

\* the handler answers; emailCall and emailDraft record the call of the
\* formatter, if the handler made it
Answer(r) ==
  /\ response' = [status |-> r.status, ok |-> r.ok, email |-> r.email, error |-> r.error]
  /\ IF IsSome(r.args)
     THEN /\ emailCall' = [fn |-> "makeFollowUpEmailDraftFromHighlights", bullets |-> <<>>,
                           opts |-> NoOpts, args |-> ValueOf(r.args)]
          /\ emailDraft' = ValueOf(r.email)
          /\ emailPc' = "returned"
     ELSE UNCHANGED emailVars
  /\ genPc' = "responded"
  /\ UNCHANGED <<request, calls, clientOutputs, segVars, actVars, appVars>>

PostNormalizing ==
  /\ genPc = "request"
  /\ \E r \in {POSTNormalizing(request)} : Answer(r)

PostFollowUp ==
  /\ genPc = "request"
  /\ \E r \in {POSTFollowUp(request)} : Answer(r)

FollowUpNext == PostNormalizing \/ PostFollowUp

SpecFollowUp == FollowUpInit /\ [][FollowUpNext]_vars

(* ------------------------------------------------------------------------ *)
(* Claims about POST /api/follow-up                                          *)
(* ------------------------------------------------------------------------ *)

\* the handler called the formatter for a request whose body was JSON
FormatterCalled == genPc = "responded" /\ emailPc = "returned" /\ IsSome(request)

\* C17: when the handler calls the formatter, the meetingResult it passes is
\* the one of the body if that is one of the six results and "Pending"
\* otherwise, the emailType is the one of the body if it is one of the five
\* types and followUp otherwise, the emailTone is the one of the body if it is
\* one of the four tones and professional otherwise, and the highlights are
\* those of the body whose text is not empty after trimming, so that no
\* highlight the formatter receives has an empty text.
C17_ValidatedRequest ==
  FormatterCalled =>
    LET body == ValueOf(request)
        args == emailCall.args
        given == orElse(body.highlights, <<>>)
        kept == SelectSeq(given, HasText)
    IN /\ args.meetingResult =
            (IF body.meetingResult \in {Some(m) : m \in MEETING_RESULTS}
             THEN body.meetingResult ELSE Some(<<"P","e","n","d","i","n","g">>))
       /\ args.emailType =
            (IF body.emailType \in {Some(t) : t \in EmailTypes}
             THEN body.emailType ELSE Some("followUp"))
       /\ args.emailTone =
            (IF body.emailTone \in {Some(t) : t \in EmailTones}
             THEN body.emailTone ELSE Some("professional"))
       /\ Len(args.highlights) = Len(kept)
       /\ \A i \in 1..Len(kept) : trim(args.highlights[i].text) = trim(kept[i].text)
       /\ \A i \in 1..Len(args.highlights) : trim(args.highlights[i].text) # <<>>

\* the enumerations alone: the three values the formatter receives are valid
ValidEnums ==
  FormatterCalled =>
    LET body == ValueOf(request)
        args == emailCall.args
    IN /\ args.meetingResult =
            (IF body.meetingResult \in {Some(m) : m \in MEETING_RESULTS}
             THEN body.meetingResult ELSE Some(<<"P","e","n","d","i","n","g">>))
       /\ args.emailType =
            (IF body.emailType \in {Some(t) : t \in EmailTypes}
             THEN body.emailType ELSE Some("followUp"))
       /\ args.emailTone =
            (IF body.emailTone \in {Some(t) : t \in EmailTones}
             THEN body.emailTone ELSE Some("professional"))

(* ------------------------------------------------------------------------ *)
(* Claims about the owner and the filter of parseActionItems                 *)
(* ------------------------------------------------------------------------ *)

Parsed == actPc \in {"parsed", "detected", "formatted"}

\* the handle of the first "@handle" of t, None when t has none
HandleCue(t) ==
  LET at == firstAtOrAfter({i \in 1..Len(t) : AtHandleAt(t, i)}, 1)
  IN IF at = 0 THEN None
     ELSE Some(SubSeq(t, at + 1, runEnd(t, at + 1, WordCharSet, Len(t))))

\* the name of a leading "<Name> will", None when t does not start with one
WillCue(t) == IF willNameEnd(t) = 0 THEN None ELSE Some(SubSeq(t, 1, willNameEnd(t)))

\* the first of the cues that is present, None when none is
RECURSIVE FirstCue(_)
FirstCue(cues) ==
  IF cues = <<>> THEN None
  ELSE IF IsSome(Head(cues)) THEN Head(cues) ELSE FirstCue(Tail(cues))

\* the four cues that name an owner, in the order of their priority
NamedCues(t) == <<HandleCue(t), tagName(t, <<"o","w","n","e","r",":">>), tagName(t, <<"a","s","s","i","g","n","e","d"," ","t","o">>), WillCue(t)>>

\* C18 as stated: the owner is the first of the named cues, else "Me" when the
\* text contains "I will", else "We" when it contains "we will".
C18_OwnerAsStated ==
  Parsed =>
    \A k \in 1..Len(items) :
      LET t == items[k].text
      IN items[k].owner =
           FirstCue(NamedCues(t)
                    \o <<IF OccursIn(t, <<"i"," ","w","i","l","l">>) THEN Some(<<"M","e">>) ELSE None,
                         IF OccursIn(t, <<"w","e"," ","w","i","l","l">>) THEN Some(<<"W","e">>) ELSE None>>)

\* C18 as amended: the owner of an item is the first cue present in its text
\* in the order @handle, "owner:" tag, "assigned to" phrase, leading
\* "<Name> will"; when none of them is present it is "Me" if the text holds
\* "i will" as whole words (letters compared without case), else "We" if it
\* holds "we will" as whole words, else absent; a cue earlier in the order
\* wins over every later one.
C18_OwnerPriority ==
  Parsed =>
    \A k \in 1..Len(items) :
      LET t == items[k].text
      IN items[k].owner =
           FirstCue(NamedCues(t)
                    \o <<IF OccursAsWords(t, <<"i"," ","w","i","l","l">>) THEN Some(<<"M","e">>) ELSE None,
                         IF OccursAsWords(t, <<"w","e"," ","w","i","l","l">>) THEN Some(<<"W","e">>) ELSE None>>)

\* items were parsed whose texts hold two cues each, and the earlier cue won:
\* the handle over the leading name, the "assigned to" name over the leading
\* name
C18_Witness ==
  /\ Parsed
  /\ Len(items) = 2
  /\ IsSome(HandleCue(items[1].text)) /\ IsSome(WillCue(items[1].text))
  /\ items[1].owner = HandleCue(items[1].text)
  /\ items[1].owner # WillCue(items[1].text)
  /\ IsSome(tagName(items[2].text, <<"a","s","s","i","g","n","e","d"," ","t","o">>)) /\ IsSome(WillCue(items[2].text))
  /\ items[2].owner = Some(<<"A","l">>)

\* a verb of the vocabulary occurs in b as whole words
VerbAsWords(b) ==
  \E k \in 1..Len(singleWordVerbs) : OccursAsWords(b, singleWordVerbs[k])
PhraseAsWords(b) ==
  \E k \in 1..Len(phraseVerbs) : OccursAsWords(b, phraseVerbs[k])

\* C19 as stated: the items returned are those of the bullets in which a verb
\* of the vocabulary, phrase or single word, occurs as a whole word.
C19_WholeWordAsStated ==
  Parsed =>
    \A k \in 1..Len(actBullets) :
      (\E i \in 1..Len(items) : items[i].text = trim(actBullets[k]))
        => (VerbAsWords(actBullets[k]) \/ PhraseAsWords(actBullets[k]))

\* C19 as amended: a bullet is returned as an item if and only if one of the
\* 14 single-word verbs occurs in it as a whole word (letters compared without
\* case) or one of the phrases "follow up", "touch base" occurs in it anywhere;
\* a bullet that holds a single-word verb only inside a longer word, and
\* neither phrase, is not returned.
C19_WholeWordVerbs ==
  Parsed =>
    \A k \in 1..Len(actBullets) :
      (\E i \in 1..Len(items) : items[i].text = trim(actBullets[k]))
        <=> \/ VerbAsWords(actBullets[k])
            \/ \E p \in 1..Len(phraseVerbs) : OccursIn(actBullets[k], phraseVerbs[p])

\* "callback tomorrow" and a bullet with the verb as a word were parsed, and
\* only the second came back
C19_Witness ==
  /\ Parsed
  /\ Len(actBullets) = 2
  /\ actBullets[1] = <<"c","a","l","l","b","a","c","k"," ","t","o","m","o","r","r","o","w">>
  /\ OccursIn(actBullets[1], <<"c","a","l","l">>) /\ ~VerbAsWords(actBullets[1])
  /\ VerbAsWords(actBullets[2])
  /\ Len(items) = 1
  /\ items[1].text = trim(actBullets[2])

(* ------------------------------------------------------------------------ *)
(* SpecChecks: detectActionIssues on items of every kind                     *)
(* ------------------------------------------------------------------------ *)

MaxCheckedItems == 2

\* texts of 19 and of 20 characters, texts with and without a phrase that
\* makes them vague, with and without an owner and a due date
LongerTexts ==
  { <<"P","r","e","p","a","r","e"," ","t","h","e"," ","Q","3"," ","d","e","c","k">>, <<"P","r","e","p","a","r","e"," ","t","h","e"," ","Q","3"," ","d","e","c","k","s">>, <<"P","l","e","a","s","e"," ","L","o","o","k"," ","I","n","t","o"," ","t","h","e"," ","s","e","r","v","e","r"," ","l","o","g","s">>,
    <<"t","o","u","c","h"," ","b","a","s","e">>, <<"S","e","n","d"," ","t","h","e"," ","s","i","g","n","e","d"," ","c","o","n","t","r","a","c","t"," ","t","o","m","o","r","r","o","w">> }

CheckedItems ==
  {[text |-> t, owner |-> o, due |-> d, notes |-> None] :
     t \in LongerTexts, o \in {None, Some(<<"A","l">>)}, d \in {None, Some(<<"F","r","i","d","a","y">>)}}

ChecksInit ==
  /\ actBullets = <<>>
  /\ items \in StringsUpTo(CheckedItems, MaxCheckedItems)
  /\ issues = <<>>
  /\ formatted = <<>>
  /\ summary = <<>>
  /\ actPc = "parsed"
  /\ SegIdle /\ EmailIdle /\ GenIdle /\ AppIdle

SpecChecks == ChecksInit /\ [][IssuesNext]_vars

(* ------------------------------------------------------------------------ *)
(* Claims about the independence of the issues                               *)
(* ------------------------------------------------------------------------ *)

Detected == actPc \in {"detected", "formatted"}

\* the text is under 20 characters or contains one of the three phrases
\* (letters compared without case)
VagueText(t) ==
  \/ Len(t) < 20
  \/ \E p \in {<<"l","o","o","k"," ","i","n","t","o">>, <<"c","h","e","c","k"," ","o","n">>, <<"t","o","u","c","h"," ","b","a","s","e">>} : OccursIn(t, p)

\* the issues of one item when each check is evaluated on its own: the type
\* and the message of each check that fires, in the order owner, due date,
\* vague
IssueIf(fires, type, label, t) ==
  IF fires THEN <<[type |-> type, message |-> label \o <<":"," ","\"">> \o t \o <<"\"">>]>> ELSE <<>>

IndependentIssues(item) ==
  IssueIf(~hasOwner(item), "missingOwner", <<"M","i","s","s","i","n","g"," ","o","w","n","e","r">>, item.text)
  \o IssueIf(~hasDue(item), "missingDueDate", <<"M","i","s","s","i","n","g"," ","d","u","e"," ","d","a","t","e">>, item.text)
  \o IssueIf(VagueText(item.text), "vague", <<"P","o","s","s","i","b","l","y"," ","v","a","g","u","e">>, item.text)

RECURSIVE GroupedIssues(_)
GroupedIssues(its) ==
  IF its = <<>> THEN <<>> ELSE IndependentIssues(Head(its)) \o GroupedIssues(Tail(its))

\* C20: the issues are, item by item in the order of the items, those of the
\* three checks missing owner, missing due date and vague that fire for the
\* item, each check evaluated on its own, so that an item yields between 0 and
\* 3 issues and no issue suppresses another; the vague check fires if and only
\* if the text of the item is under 20 characters or contains "look into",
\* "check on" or "touch base".
C20_IssueIndependence ==
  Detected =>
    /\ issues = GroupedIssues(items)
    /\ Len(issues) <= 3 * Len(items)
    /\ Cardinality({i \in 1..Len(issues) : issues[i].type = "vague"})
         = Cardinality({k \in 1..Len(items) : VagueText(items[k].text)})

\* two items were checked, the first drew all three issues and the second, of
\* 20 characters with an owner and a due date, none
C20_Witness ==
  /\ Detected
  /\ Len(items) = 2
  /\ ~hasOwner(items[1]) /\ ~hasDue(items[1]) /\ VagueText(items[1].text)
  /\ Len(items[2].text) = 20
  /\ hasOwner(items[2]) /\ hasDue(items[2]) /\ ~VagueText(items[2].text)
  /\ Len(issues) = 3
  /\ <<issues[1].type, issues[2].type, issues[3].type>> = <<"missingOwner", "missingDueDate", "vague">>
  /\ \A i \in 1..3 : issues[i] \in {IndependentIssues(items[1])[j] : j \in 1..3}

(* ------------------------------------------------------------------------ *)
(* SpecPage: the session screen of page.tsx on one stored session.          *)
(* A handler that awaits generateViaApi takes two steps: the click, which    *)
(* fixes the render it runs in and the request it sends, and the return of   *)
(* generateViaApi, after which it goes on with the session of that render.   *)
(* ------------------------------------------------------------------------ *)

MaxOps == 4
MaxInFlight == 2

PageTitles == {<<"T">>}
PageObjectives == {<<"o">>}
PageNotes == {<<"o","k">>}
PagePostNotes == {<<"l","a","t","e">>}
PageOutcomes == {<<"w","o","n">>}
PageResults == {<<"C","o","m","p","l","e","t","e","d">>}

\* a session after raw notes were typed
notedSession == patchSession(createSession("s"), [rawNotes |-> <<"c","a","l","l"," ","A","l">>], TRUE)

\* the checkpoints left by typing notes and clearing, then typing an
\* objective and clearing, over and over
clearedA == [rawNotes |-> <<"o","k">>, objective |-> <<>>, outputs |-> defaultOutputs, reason |-> "clear"]
clearedB == [rawNotes |-> <<>>, objective |-> <<"o">>, outputs |-> defaultOutputs, reason |-> "clear"]
clearedHistory(n) == <<>> \o [i \in 1..n |-> IF i % 2 = 1 THEN clearedA ELSE clearedB]
clearedSession == [createSession("s") EXCEPT !.checkpoints = clearedHistory(MAX_CHECKPOINTS)]

\* a session after End Meeting succeeded on the typed notes
endedSession ==
  handleEndMeeting(notedSession, notedSession,
                   generateViaApi(POST(generateBody(notedSession.rawNotes, notedSession))))

editingUi ==
  [showPastEditConfirm |-> FALSE, isEditingPastRawNotes |-> TRUE,
   pastEditDraft |-> <<"o","k">>, pastEditOriginal |-> endedSession.rawNotes]

PageStarts ==
  { [session |-> createSession("s"), ui |-> resetPastEditUi, generated |-> FALSE],
    [session |-> notedSession, ui |-> resetPastEditUi, generated |-> FALSE],
    [session |-> clearedSession, ui |-> resetPastEditUi, generated |-> FALSE],
    [session |-> endedSession, ui |-> resetPastEditUi, generated |-> TRUE],
    [session |-> endedSession, ui |-> editingUi, generated |-> TRUE] }

PageInit ==
  /\ \E start \in PageStarts :
       /\ session = start.session
       /\ ui = start.ui
       /\ generated = start.generated
  /\ inflight = <<>>
  /\ trail = <<>>
  /\ ops = 0
  /\ StoreIdle
  /\ SegIdle /\ ActIdle /\ EmailIdle /\ GenIdle

\* the trail keeps the last two operations
Log(entry) == IF Len(trail) < 2 THEN Append(trail, entry) ELSE <<trail[2], entry>>

\* before is the stored session the operation found, base the session of the
\* render its handler ran in
Entry(op) ==
  [op |-> op, before |-> session, base |-> session, uiBefore |-> ui, handler |-> "",
   threw |-> FALSE, outputs |-> None]

PageStep(op) ==
  /\ ops < MaxOps
  /\ ops' = ops + 1
  /\ trail' = Log(Entry(op))
  /\ UNCHANGED <<storeVars, segVars, actVars, emailVars, genVars>>

EditTitle ==
  /\ \E v \in PageTitles : session' = patchSession(session, [title |-> v], TRUE)
  /\ PageStep("title")
  /\ UNCHANGED <<ui, inflight, generated>>

EditObjective ==
  /\ \E v \in PageObjectives : session' = patchSession(session, [objective |-> v], TRUE)
  /\ PageStep("objective")
  /\ UNCHANGED <<ui, inflight, generated>>

\* the raw notes textarea: read-only in past mode unless the edit is on
EditRawNotes ==
  /\ session.mode # "past"
  /\ \E v \in PageNotes \cup {<<>>} : session' = patchSession(session, [rawNotes |-> v], TRUE)
  /\ PageStep("rawNotes")
  /\ UNCHANGED <<ui, inflight, generated>>

EditPastDraft ==
  /\ session.mode = "past" /\ ui.isEditingPastRawNotes
  /\ \E v \in PageNotes \cup {<<>>} : ui' = [ui EXCEPT !.pastEditDraft = v]
  /\ PageStep("draft")
  /\ UNCHANGED <<session, inflight, generated>>

EditPostMeetingNotes ==
  /\ session.mode = "past"
  /\ \E v \in PagePostNotes : session' = patchSession(session, [postMeetingNotes |-> v], TRUE)
  /\ PageStep("postMeetingNotes")
  /\ UNCHANGED <<ui, inflight, generated>>

EditMeetingResult ==
  /\ session.mode = "past"
  /\ \E v \in PageResults : session' = patchPastMeta(session, [meetingResult |-> v])
  /\ PageStep("pastMeta")
  /\ UNCHANGED <<ui, inflight, generated>>

EditMeetingOutcome ==
  /\ session.mode = "past"
  /\ \E v \in PageOutcomes : session' = patchPastMeta(session, [meetingOutcome |-> v])
  /\ PageStep("pastMeta")
  /\ UNCHANGED <<ui, inflight, generated>>

\* a handler waiting for generateViaApi
Waiting(handler, rawNotes) ==
  [handler |-> handler, currentSession |-> session, pastEditDraft |-> ui.pastEditDraft,
   body |-> generateBody(rawNotes, session)]

Send(handler, rawNotes) ==
  /\ Len(inflight) < MaxInFlight
  /\ inflight' = Append(inflight, Waiting(handler, rawNotes))
  /\ PageStep(handler)
  /\ UNCHANGED <<session, ui, generated>>

\* the Generate button is disabled while the notes it would send are blank
ClickGenerateNow ==
  /\ trim(getRawNotesForGeneration(session, ui)) # <<>>
  /\ Send("handleGenerateNow", getRawNotesForGeneration(session, ui))

ClickIncorporateIntoOutputs ==
  /\ session.mode = "past"
  /\ Send("handleIncorporateIntoOutputs", getRawNotesForGeneration(session, ui))

ClickEndMeeting ==
  /\ session.mode = "current"
  /\ Send("handleEndMeeting", session.rawNotes)

ClickSavePastEdit ==
  /\ session.mode = "past" /\ ui.isEditingPastRawNotes
  /\ Send("savePastEdit", ui.pastEditDraft)

\* the session a waiting handler stores when generateViaApi returns outputs
Resumed(w, outputs) ==
  CASE w.handler = "handleEndMeeting" -> handleEndMeeting(w.currentSession, session, outputs)
    [] w.handler = "savePastEdit" -> savePastEdit(w.currentSession, session, w.pastEditDraft, outputs)
    [] OTHER -> runGenerate(w.currentSession, session, "generate", outputs)

\* generateViaApi returns to a waiting handler: null when fetch threw or the
\* route refused, the outputs otherwise; the handlers return in any order
Return ==
  /\ ops < MaxOps
  /\ \E i \in 1..Len(inflight), threw \in BOOLEAN :
       \E outputs \in {IF threw THEN None ELSE generateViaApi(POST(inflight[i].body))} :
         /\ session' = Resumed(inflight[i], outputs)
         /\ ui' = IF IsSome(outputs) /\ inflight[i].handler \in {"handleEndMeeting", "savePastEdit"}
                  THEN resetPastEditUi ELSE ui
         /\ generated' = (generated \/ IsSome(outputs))
         /\ trail' = Log([Entry("return") EXCEPT !.handler = inflight[i].handler,
                                                  !.base = inflight[i].currentSession,
                                                  !.threw = threw,
                                                  !.outputs = outputs])
         /\ inflight' = SubSeq(inflight, 1, i - 1) \o SubSeq(inflight, i + 1, Len(inflight))
  /\ ops' = ops + 1
  /\ UNCHANGED <<storeVars, segVars, actVars, emailVars, genVars>>

Undo ==
  /\ getCheckpoints(session) # <<>>
  /\ session' = handleUndo(session)
  /\ ui' = resetPastEditUi
  /\ PageStep("handleUndo")
  /\ UNCHANGED <<inflight, generated>>

Redo ==
  /\ getRedoStack(session) # <<>>
  /\ session' = handleRedo(session)
  /\ ui' = resetPastEditUi
  /\ PageStep("handleRedo")
  /\ UNCHANGED <<inflight, generated>>

Clear ==
  /\ session' = handleClear(session)
  /\ ui' = resetPastEditUi
  /\ PageStep("handleClear")
  /\ UNCHANGED <<inflight, generated>>

RequestEnablePastEdit ==
  /\ session.mode = "past" /\ ~ui.isEditingPastRawNotes
  /\ ui' = [ui EXCEPT !.pastEditOriginal = session.rawNotes,
                      !.pastEditDraft = session.rawNotes,
                      !.showPastEditConfirm = TRUE]
  /\ PageStep("requestEnablePastEdit")
  /\ UNCHANGED <<session, inflight, generated>>

ConfirmEnablePastEdit ==
  /\ ui.showPastEditConfirm
  /\ ui' = [ui EXCEPT !.showPastEditConfirm = FALSE, !.isEditingPastRawNotes = TRUE]
  /\ PageStep("confirmEnablePastEdit")
  /\ UNCHANGED <<session, inflight, generated>>

CancelPastEdit ==
  /\ ui.showPastEditConfirm \/ (session.mode = "past" /\ ui.isEditingPastRawNotes)
  /\ ui' = resetPastEditUi
  /\ PageStep("cancelPastEdit")
  /\ UNCHANGED <<session, inflight, generated>>

PageNext ==
  \/ EditTitle \/ EditObjective \/ EditRawNotes \/ EditPastDraft
  \/ EditPostMeetingNotes \/ EditMeetingResult \/ EditMeetingOutcome
  \/ ClickGenerateNow \/ ClickIncorporateIntoOutputs \/ ClickEndMeeting \/ ClickSavePastEdit
  \/ Return
  \/ Undo \/ Redo \/ Clear
  \/ RequestEnablePastEdit \/ ConfirmEnablePastEdit \/ CancelPastEdit

SpecPage == PageInit /\ [][PageNext]_vars

\* the operation applied last, and the session before it
LastOp == trail[Len(trail)]

(* ------------------------------------------------------------------------ *)
(* Outputs of the stored session                                            *)
(* ------------------------------------------------------------------------ *)

IsBlankOutputs(o) == o.summary = <<>> /\ o.actionItems = <<>> /\ o.email = <<>>

PlainGeneration == {"handleGenerateNow", "handleIncorporateIntoOutputs"}

\* the last operation was generateViaApi returning outputs to handler h
Succeeded(h) ==
  trail # <<>> /\ LastOp.op = "return" /\ LastOp.handler = h /\ IsSome(LastOp.outputs)

\* C21: as long as no generation has succeeded on the session, its summary,
\* action items and email are all the empty string, from creation on and
\* after any edit, clear, undo, redo or failed generation; when a plain
\* generation succeeds, the session holds the summary and the action items
\* the route returned and an empty email.
C21_BlankUntilGenerated ==
  /\ ~generated => IsBlankOutputs(session.outputs)
  /\ \A h \in PlainGeneration :
       Succeeded(h) =>
         /\ session.outputs.summary = ValueOf(LastOp.outputs).summary
         /\ session.outputs.actionItems = ValueOf(LastOp.outputs).actionItems
         /\ session.outputs.email = <<>>

\* an undo brings cleared notes back while nothing was generated yet
C21_Witness ==
  /\ ~generated
  /\ trail # <<>> /\ LastOp.op = "handleUndo"
  /\ session.rawNotes # <<>>
  /\ LastOp.before.rawNotes = <<>>

(* ------------------------------------------------------------------------ *)
(* Undo and redo                                                            *)
(* ------------------------------------------------------------------------ *)

\* two checkpoint lists of one length whose checkpoints are core-equal in turn
CoreEqualLists(a, b) ==
  /\ Len(a) = Len(b)
  /\ \A i \in 1..Len(a) : checkpointCoreEqual(a[i], b[i])

UndoThenRedo ==
  Len(trail) = 2 /\ trail[1].op = "handleUndo" /\ trail[2].op = "handleRedo"

\* C23: when handleUndo is immediately followed by handleRedo, the session
\* has the rawNotes, objective and outputs it had before the undo, and its
\* checkpoint list and redo stack have the lengths they had, with core-equal
\* checkpoints at every position.
C23_UndoRedoRoundTrip ==
  UndoThenRedo =>
    /\ session.rawNotes = trail[1].before.rawNotes
    /\ session.objective = trail[1].before.objective
    /\ session.outputs = trail[1].before.outputs
    /\ CoreEqualLists(session.checkpoints, trail[1].before.checkpoints)
    /\ CoreEqualLists(session.redoStack, trail[1].before.redoStack)

\* the undo changed the session and the redo brought it back
C23_Witness ==
  /\ UndoThenRedo
  /\ trail[2].before.objective # session.objective
  /\ session.checkpoints # <<>>

(* ------------------------------------------------------------------------ *)
(* The checkpoint list and the redo stack                                   *)
(* ------------------------------------------------------------------------ *)

\* the last operation went through doDestructive
Destructive ==
  /\ trail # <<>>
  /\ \/ LastOp.op = "handleClear"
     \/ LastOp.op = "return" /\ IsSome(LastOp.outputs)

\* C24: the checkpoint list of the stored session never holds more than
\* MAX_CHECKPOINTS (50) checkpoints, although handleRedo appends without a
\* cap; a destructive operation that pushes a checkpoint onto a list of 50
\* drops the oldest one and keeps the other 49 in order.
C24_CheckpointCap ==
  /\ Len(session.checkpoints) <= MAX_CHECKPOINTS
  /\ (Destructive /\ Len(LastOp.base.checkpoints) = MAX_CHECKPOINTS
        /\ session.checkpoints # LastOp.base.checkpoints) =>
       /\ Len(session.checkpoints) = MAX_CHECKPOINTS
       /\ SubSeq(session.checkpoints, 1, MAX_CHECKPOINTS - 1) = Tail(LastOp.base.checkpoints)

\* a clear on a session with 50 checkpoints pushed one more
C24_Witness ==
  /\ Destructive
  /\ Len(LastOp.base.checkpoints) = MAX_CHECKPOINTS
  /\ session.checkpoints # LastOp.base.checkpoints
  /\ session.checkpoints[MAX_CHECKPOINTS].reason = "clear"

\* handleRedo appended to a list of 49 checkpoints
RedoFillsList ==
  /\ trail # <<>> /\ LastOp.op = "handleRedo"
  /\ Len(session.checkpoints) = MAX_CHECKPOINTS

\* the fields edited through patchSession
FieldEdits == {"title", "objective", "rawNotes", "postMeetingNotes", "pastMeta"}

\* C25: after every destructive operation (a generation, End Meeting, a saved
\* past edit, Clear) and after every edit of the title, the objective, the
\* raw notes, the post-meeting notes or the past meta through patchSession,
\* the redo stack of the stored session is empty.
C25_RedoCleared ==
  (trail # <<>> /\ (Destructive \/ LastOp.op \in FieldEdits)) => session.redoStack = <<>>

\* an edit after an undo emptied a redo stack that held a checkpoint
C25_Witness ==
  /\ trail # <<>> /\ LastOp.op \in FieldEdits
  /\ LastOp.before.redoStack # <<>>
  /\ session.redoStack = <<>>

\* a returning generation emptied a redo stack that held a checkpoint
GenerationClearsRedo ==
  /\ Destructive /\ LastOp.op = "return"
  /\ LastOp.before.redoStack # <<>>

(* ------------------------------------------------------------------------ *)
(* Handlers that return from generateViaApi after the session has changed   *)
(* ------------------------------------------------------------------------ *)

\* C26: the mode of a session is "current" at creation and, once End Meeting
\* has set it to "past", no operation of the session screen sets it back to
\* "current"; in particular undoing the checkpoint of End Meeting restores
\* rawNotes, objective and outputs and leaves the mode "past".
C26_ModeMonotonic ==
  (trail # <<>> /\ LastOp.before.mode = "past") => session.mode = "past"

\* the same for the operations that do not wait for generateViaApi
ModeKeptBySynchronous ==
  (trail # <<>> /\ LastOp.op # "return" /\ LastOp.before.mode = "past") => session.mode = "past"

\* the checkpoint of End Meeting was undone in past mode
UndoOfEndMeeting ==
  /\ trail # <<>> /\ LastOp.op = "handleUndo"
  /\ LastOp.before.checkpoints[Len(LastOp.before.checkpoints)].reason = "end"
  /\ session.mode = "past"
  /\ IsBlankOutputs(session.outputs)

\* a generation started in current mode returned after End Meeting
ModeReverted ==
  /\ trail # <<>> /\ LastOp.op = "return" /\ LastOp.handler = "handleGenerateNow"
  /\ LastOp.before.mode = "past"
  /\ session.mode = "current"

\* C27: what was edited between the click that sent a generate, End Meeting
\* or save-past-edit request and the arrival of its response is still in the
\* session afterwards: applying the response changes the outputs, the
\* checkpoints and the redo stack (the mode and an absent past meta for End
\* Meeting, the raw notes for a saved past edit) and nothing else.
C27_NoLostEdits ==
  (trail # <<>> /\ LastOp.op = "return" /\ IsSome(LastOp.outputs)) =>
    /\ session.title = LastOp.before.title
    /\ session.objective = LastOp.before.objective
    /\ session.postMeetingNotes = LastOp.before.postMeetingNotes
    /\ LastOp.handler # "savePastEdit" => session.rawNotes = LastOp.before.rawNotes
    /\ LastOp.handler # "handleEndMeeting" => session.mode = LastOp.before.mode
    /\ (LastOp.handler # "handleEndMeeting" \/ IsSome(LastOp.before.pastMeta)) =>
         session.pastMeta = LastOp.before.pastMeta

\* a title typed while the request was under way is gone after the response
TitleEditLost ==
  /\ trail # <<>> /\ LastOp.op = "return" /\ IsSome(LastOp.outputs)
  /\ LastOp.before.title # LastOp.base.title
  /\ session.title = LastOp.base.title

\* a handler that returns to the render it was started in loses nothing
NoLostEditsWhenUnchanged ==
  (trail # <<>> /\ LastOp.op = "return" /\ IsSome(LastOp.outputs)
     /\ LastOp.base = LastOp.before) => C27_NoLostEdits

\* the last operation was generateViaApi returning null to a handler
Failed == trail # <<>> /\ LastOp.op = "return" /\ ~IsSome(LastOp.outputs)

\* C28: when generateViaApi returns null (fetch threw, or the route answered
\* not ok, as it does for an empty input), runGenerate, handleEndMeeting and
\* savePastEdit push no checkpoint, leave the redo stack, the outputs and the
\* raw notes as they are, and End Meeting leaves the mode as it is; the past
\* edit stays open.
C28_FailureChangesNothing ==
  Failed =>
    /\ session.checkpoints = LastOp.before.checkpoints
    /\ session.redoStack = LastOp.before.redoStack
    /\ session.outputs = LastOp.before.outputs
    /\ session.rawNotes = LastOp.before.rawNotes
    /\ session.mode = LastOp.before.mode
    /\ ui = LastOp.uiBefore

\* the route refused End Meeting on a session without notes, after an undo
C28_Witness ==
  /\ Failed /\ ~LastOp.threw
  /\ LastOp.handler = "handleEndMeeting"
  /\ session.mode = "current"
  /\ session.redoStack # <<>>

\* a past edit whose request failed is still open
FailedSaveKeepsDraft ==
  /\ Failed /\ LastOp.handler = "savePastEdit"
  /\ ui.isEditingPastRawNotes

(* ------------------------------------------------------------------------ *)
(* SpecStore: updateSession, deleteSession and moveSessionToFolder on        *)
(* bounded session lists                                                     *)
(* ------------------------------------------------------------------------ *)

MaxSessions == 2
MaxStoreOps == 2

StoreIds == {"a", "b"}
StoreFolders == {None, Some("f1")}

\* sessions as createSession and moveSessionToFolder leave them
StoreSessions ==
  {[createSession(id) EXCEPT !.folderId = f] : id \in StoreIds, f \in StoreFolders}

\* the lists of up to n sessions; generateId() draws ids at random, so two
\* sessions of a list may carry the same id
StoreLists(n) == UNION {[1..k -> StoreSessions] : k \in 0..n}

\* an edited session handed to updateSession, its id in the list or not
UpdatedSessions ==
  {[createSession(id) EXCEPT !.title = <<"T">>, !.rawNotes = <<"o","k">>] : id \in StoreIds \cup {"z"}}

StoreInit ==
  /\ sessions \in StoreLists(MaxSessions)
  /\ storage = None
  /\ trail = <<>>
  /\ ops = 0
  /\ session = <<>> /\ ui = <<>> /\ inflight = <<>> /\ generated = FALSE
  /\ SegIdle /\ ActIdle /\ EmailIdle /\ GenIdle

StoreStep(entry) ==
  /\ ops < MaxStoreOps
  /\ ops' = ops + 1
  /\ trail' = <<entry>>
  /\ UNCHANGED <<storage, session, ui, inflight, generated, segVars, actVars, emailVars, genVars>>

UpdateSession ==
  \E updated \in UpdatedSessions :
    /\ sessions' = updateSession(sessions, updated)
    /\ StoreStep([op |-> "updateSession", before |-> sessions, id |-> updated.id,
                  updated |-> updated, folderId |-> None])

DeleteSession ==
  \E sessionId \in StoreIds \cup {"z"} :
    /\ sessions' = deleteSession(sessions, sessionId)
    /\ StoreStep([op |-> "deleteSession", before |-> sessions, id |-> sessionId,
                  updated |-> <<>>, folderId |-> None])

MoveSessionToFolder ==
  \E sessionId \in StoreIds \cup {"z"}, folderId \in StoreFolders \cup {Some("f2")} :
    /\ sessions' = moveSessionToFolder(sessions, sessionId, folderId)
    /\ StoreStep([op |-> "moveSessionToFolder", before |-> sessions, id |-> sessionId,
                  updated |-> <<>>, folderId |-> folderId])

StoreNext == UpdateSession \/ DeleteSession \/ MoveSessionToFolder

SpecStore == StoreInit /\ [][StoreNext]_vars

\* the positions of list whose session has the id
Matching(list, id) == {i \in 1..Len(list) : list[i].id = id}

\* the position in list of the k-th session whose id differs from id
NthKept(list, id, k) ==
  CHOOSE i \in 1..Len(list) :
    /\ list[i].id # id
    /\ Cardinality({m \in 1..i : list[m].id # id}) = k

\* C30: updateSession and moveSessionToFolder return a list of the same
\* length and order in which every session whose id differs from the given
\* one is unchanged, the sessions with that id are replaced by the updated
\* session (updateSession) or differ from before in folderId only
\* (moveSessionToFolder); when no id matches the list is equal to the one
\* given. deleteSession returns the sessions whose id differs from the given
\* one, all of them, in their order.
C30_StoreFrame ==
  trail # <<>> =>
    LET before == LastOp.before
        hit == Matching(before, LastOp.id)
    IN /\ LastOp.op \in {"updateSession", "moveSessionToFolder"} =>
            /\ Len(sessions) = Len(before)
            /\ \A i \in 1..Len(before) : i \notin hit => sessions[i] = before[i]
            /\ hit = {} => sessions = before
       /\ LastOp.op = "updateSession" =>
            \A i \in hit : sessions[i] = LastOp.updated
       /\ LastOp.op = "moveSessionToFolder" =>
            \A i \in hit :
              /\ sessions[i].folderId = LastOp.folderId
              /\ [sessions[i] EXCEPT !.folderId = before[i].folderId] = before[i]
       /\ LastOp.op = "deleteSession" =>
            /\ Len(sessions) = Len(before) - Cardinality(hit)
            /\ \A k \in 1..Len(sessions) : sessions[k] = before[NthKept(before, LastOp.id, k)]

\* updateSession replaced the second of two sessions and kept the first
C30_Witness ==
  /\ trail # <<>> /\ LastOp.op = "updateSession"
  /\ Len(sessions) = 2
  /\ Matching(LastOp.before, LastOp.id) = {2}
  /\ sessions[2] = LastOp.updated
  /\ sessions[1] = LastOp.before[1]

\* deleteSession removed both sessions that carried the id
DeletedAllMatching ==
  /\ trail # <<>> /\ LastOp.op = "deleteSession"
  /\ Cardinality(Matching(LastOp.before, LastOp.id)) = 2
  /\ sessions = <<>>

\* no session carried the id given to moveSessionToFolder
MovedNothing ==
  /\ trail # <<>> /\ LastOp.op = "moveSessionToFolder"
  /\ LastOp.before # <<>>
  /\ Matching(LastOp.before, LastOp.id) = {}

(* ------------------------------------------------------------------------ *)
(* SpecFollowUpPage: the follow-up page on a past session with follow-ups,   *)
(* and the reload of the stored sessions                                     *)
(* ------------------------------------------------------------------------ *)

MaxFollowOps == 3

FollowUpIds == {"f1", "f2"}

PageHighlights ==
  <<[id |-> "h1", text |-> <<"C","o","n","f","i","r","m"," ","b","u","d","g","e","t">>, tag |-> <<"U","r","g","e","n","t">>],
    [id |-> "h2", text |-> <<"y">>, tag |-> <<"N","o","n","e">>]>>

\* the follow-ups a past session is given
FollowUpPatches ==
  { [title |-> <<"P","r","i","c","i","n","g">>, highlights |-> PageHighlights, focusPrompt |-> <<"p","r","i","c","e">>],
    [followUpType |-> <<"C","a","l","l">>, highlights |-> SubSeq(PageHighlights, 1, 1)],
    [title |-> <<"L","a","t","e","r">>] }

\* endedSession with one follow-up, or with two
FollowUpSessions ==
  {addFollowUpToSession(endedSession, "f1", p) : p \in FollowUpPatches}
  \cup {addFollowUpToSession(addFollowUpToSession(endedSession, "f1", p), "f2", q) :
          p \in FollowUpPatches, q \in FollowUpPatches}

FollowUpPageInit ==
  /\ \E s \in FollowUpSessions :
       /\ sessions = <<s>>
       /\ storage = saveSessions(<<s>>)
  /\ trail = <<>>
  /\ ops = 0
  /\ session = <<>> /\ ui = <<>> /\ inflight = <<>> /\ generated = FALSE
  /\ SegIdle /\ ActIdle /\ EmailIdle /\ GenIdle

\* persist(next): setSessions and saveSessions
Persist(op, followUpId, next) ==
  /\ ops < MaxFollowOps
  /\ ops' = ops + 1
  /\ sessions' = next
  /\ storage' = saveSessions(next)
  /\ trail' = <<[op |-> op, before |-> sessions, id |-> followUpId]>>
  /\ UNCHANGED <<session, ui, inflight, generated, segVars, actVars, emailVars, genVars>>

\* the follow-ups the page can be opened on
Shown == {fu \in FollowUpIds : IsSome(findFollowUp(sessions[1], fu))}

ToggleComplete ==
  \E id \in Shown :
    \E fu \in {ValueOf(findFollowUp(sessions[1], id))} :
      Persist("toggleComplete", id, patchFollowUp(sessions, sessions[1], fu, toggleComplete(fu)))

\* generateEmail with the answer of the route; it returns early without
\* highlights and stores nothing when the request fails
GenerateEmail ==
  \E id \in Shown, emailType \in {"followUp", "concern"}, emailTone \in {"professional", "warm"} :
    \E fu \in {ValueOf(findFollowUp(sessions[1], id))} :
      /\ fu.highlights # <<>>
      /\ \E data \in {POSTFollowUp(followUpBody(sessions[1], fu, emailType, emailTone))} :
           /\ data.ok
           /\ Persist("generateEmail", id,
                      patchFollowUp(sessions, sessions[1], fu,
                                    [emailDraft |-> orElse(data.email, <<>>)]))

\* the page is opened again: loadSessions on mount
Reload ==
  /\ ops < MaxFollowOps
  /\ ops' = ops + 1
  /\ sessions' = loadSessions(storage)
  /\ trail' = <<[op |-> "loadSessions", before |-> sessions, id |-> ""]>>
  /\ UNCHANGED <<storage, session, ui, inflight, generated, segVars, actVars, emailVars, genVars>>

FollowUpPageNext == ToggleComplete \/ GenerateEmail \/ Reload

SpecFollowUpPage == FollowUpPageInit /\ [][FollowUpPageNext]_vars

\* the follow-ups of the one session of a list
FollowUpsOf(list) == orElse(list[1].followUps, <<>>)

\* C29: loadSessions after saveSessions yields every follow-up with the
\* status and the emailDraft it was saved with (closed by toggleComplete,
\* drafted by generateEmail), as it does for its title, type, prompts and
\* highlights.
C29_FollowUpStateSurvives ==
  (trail # <<>> /\ LastOp.op = "loadSessions") =>
    /\ Len(FollowUpsOf(sessions)) = Len(FollowUpsOf(LastOp.before))
    /\ \A i \in 1..Len(FollowUpsOf(LastOp.before)) :
         /\ prop(FollowUpsOf(sessions)[i], "status") = prop(FollowUpsOf(LastOp.before)[i], "status")
         /\ prop(FollowUpsOf(sessions)[i], "emailDraft")
              = prop(FollowUpsOf(LastOp.before)[i], "emailDraft")

\* title, type, prompts and highlights do survive
FollowUpFieldsSurvive ==
  (trail # <<>> /\ LastOp.op = "loadSessions") =>
    /\ Len(FollowUpsOf(sessions)) = Len(FollowUpsOf(LastOp.before))
    /\ \A i \in 1..Len(FollowUpsOf(LastOp.before)) :
         \A k \in {"id", "title", "followUpType", "focusPrompt", "emailPrompt", "highlights"} :
           FollowUpsOf(sessions)[i][k] = FollowUpsOf(LastOp.before)[i][k]

\* a follow-up that was closed and saved is open after the reload
ClosedIsOpenAgain ==
  /\ trail # <<>> /\ LastOp.op = "loadSessions"
  /\ statusOf(FollowUpsOf(LastOp.before)[1]) = "closed"
  /\ statusOf(FollowUpsOf(sessions)[1]) = "open"

\* a drafted email is gone after the reload
DraftIsGone ==
  /\ trail # <<>> /\ LastOp.op = "loadSessions"
  /\ "emailDraft" \in DOMAIN FollowUpsOf(LastOp.before)[1]
  /\ "emailDraft" \notin DOMAIN FollowUpsOf(sessions)[1]

(* ------------------------------------------------------------------------ *)
(* SpecHighlights: the highlights of the followUp object of part_002         *)
(* ------------------------------------------------------------------------ *)

MaxHighlightOps == 3

HighlightIds == {"h1", "h2"}
HighlightTags == {<<"U","r","g","e","n","t">>, <<"N","o","n","e">>}
HighlightTexts == {<<"C","o","n","f","i","r","m"," ","b","u","d","g","e","t">>, <<" ","y"," ">>, <<" ">>, <<>>}

\* the session after End Meeting on the typed notes, on this page
endedInBrowser ==
  doDestructive([followUp |-> None] @@ notedSession, "end",
    [mode |-> "past",
     outputs |-> generateArtifactsFromRawNotes(notedSession.rawNotes, <<>>,
                                               "followUp", "professional")])

HighlightsInit ==
  /\ session \in {endedInBrowser, enterFollowUpMode(endedInBrowser)}
  /\ trail = <<>>
  /\ ops = 0
  /\ ui = <<>> /\ inflight = <<>> /\ generated = FALSE
  /\ StoreIdle
  /\ SegIdle /\ ActIdle /\ EmailIdle /\ GenIdle

HighlightStep(entry) ==
  /\ ops < MaxHighlightOps
  /\ ops' = ops + 1
  /\ trail' = <<entry>>
  /\ UNCHANGED <<ui, inflight, generated, storeVars, segVars, actVars, emailVars, genVars>>

HighlightEntry(op) == [op |-> op, before |-> session, id |-> "", text |-> <<>>, tag |-> <<>>]

EnterFollowUpMode ==
  /\ session.mode = "past"
  /\ session' = enterFollowUpMode(session)
  /\ HighlightStep(HighlightEntry("enterFollowUpMode"))

ReturnToPastMode ==
  /\ session.mode = "followUp"
  /\ session' = returnToPastMode(session)
  /\ HighlightStep(HighlightEntry("returnToPastMode"))

\* Math.random() may return the id of a highlight that is there already
AddHighlight ==
  /\ session.mode = "followUp"
  /\ \E typed \in HighlightTexts, tag \in HighlightTags, id \in HighlightIds :
       /\ session' = addHighlight(session, typed, tag, id)
       /\ HighlightStep([HighlightEntry("addHighlight") EXCEPT !.id = id, !.text = typed,
                                                               !.tag = tag])

RemoveHighlight ==
  /\ session.mode = "followUp"
  /\ \E i \in 1..Len(ensureFollowUpInitialized(session).highlights) :
       \E id \in {ensureFollowUpInitialized(session).highlights[i].id} :
         /\ session' = removeHighlight(session, id)
         /\ HighlightStep([HighlightEntry("removeHighlight") EXCEPT !.id = id])

UpdateHighlightTag ==
  /\ session.mode = "followUp"
  /\ \E i \in 1..Len(ensureFollowUpInitialized(session).highlights), tag \in HighlightTags :
       \E id \in {ensureFollowUpInitialized(session).highlights[i].id} :
         /\ session' = updateHighlightTag(session, id, tag)
         /\ HighlightStep([HighlightEntry("updateHighlightTag") EXCEPT !.id = id, !.tag = tag])

\* the Generate button, disabled while the raw notes are blank
Regenerate ==
  /\ trim(session.rawNotes) # <<>>
  /\ \E emailType \in {"followUp", "concern"} :
       session' = handleGenerateNow(session, emailType, "professional")
  /\ HighlightStep(HighlightEntry("handleGenerateNow"))

HighlightsNext ==
  \/ EnterFollowUpMode \/ ReturnToPastMode
  \/ AddHighlight \/ RemoveHighlight \/ UpdateHighlightTag
  \/ Regenerate

SpecHighlights == HighlightsInit /\ [][HighlightsNext]_vars

HighlightsOf(s) == ensureFollowUpInitialized(s).highlights

\* C22: addHighlight with a text that is not blank appends exactly one
\* highlight, with the trimmed text and the tag, and leaves the highlights
\* that were there as they were; with a blank text it adds nothing.
\* removeHighlight removes the highlights with the given id and no other.
\* updateHighlightTag sets the tag of the highlights with the given id and
\* changes neither their id or text nor any other highlight. Regenerating
\* the summary and action items leaves the followUp object as it was.
C22_HighlightLifecycle ==
  trail # <<>> =>
    LET now == HighlightsOf(session)
        old == HighlightsOf(LastOp.before)
    IN /\ LastOp.op = "addHighlight" =>
            IF trim(LastOp.text) # <<>>
            THEN /\ Len(now) = Len(old) + 1
                 /\ SubSeq(now, 1, Len(old)) = old
                 /\ now[Len(now)].text = trim(LastOp.text)
                 /\ now[Len(now)].tag = LastOp.tag
            ELSE now = old
       /\ LastOp.op = "removeHighlight" =>
            /\ Len(now) = Len(old) - Cardinality(Matching(old, LastOp.id))
            /\ \A k \in 1..Len(now) : now[k] = old[NthKept(old, LastOp.id, k)]
       /\ LastOp.op = "updateHighlightTag" =>
            /\ Len(now) = Len(old)
            /\ \A i \in 1..Len(old) :
                 IF old[i].id = LastOp.id
                 THEN now[i].tag = LastOp.tag /\ now[i].id = old[i].id /\ now[i].text = old[i].text
                 ELSE now[i] = old[i]
       /\ LastOp.op = "handleGenerateNow" => session.followUp = LastOp.before.followUp

\* a second highlight was appended behind the first
C22_Witness ==
  /\ trail # <<>> /\ LastOp.op = "addHighlight"
  /\ Len(HighlightsOf(LastOp.before)) = 1
  /\ Len(HighlightsOf(session)) = 2
  /\ HighlightsOf(session)[2].text = <<"y">>

\* the outputs were regenerated on a session with highlights
RegeneratedWithHighlights ==
  /\ trail # <<>> /\ LastOp.op = "handleGenerateNow"
  /\ HighlightsOf(session) # <<>>
  /\ session.checkpoints # LastOp.before.checkpoints

\* one of two highlights was removed
RemovedOneOfTwo ==
  /\ trail # <<>> /\ LastOp.op = "removeHighlight"
  /\ Len(HighlightsOf(LastOp.before)) = 2
  /\ Len(HighlightsOf(session)) = 1

\* a patch of the follow-up page that carries no highlights (toggleComplete,
\* generateEmail) leaves the highlights of every follow-up as they were
PatchKeepsHighlights ==
  (trail # <<>> /\ LastOp.op \in {"toggleComplete", "generateEmail"}) =>
    /\ Len(FollowUpsOf(sessions)) = Len(FollowUpsOf(LastOp.before))
    /\ \A i \in 1..Len(FollowUpsOf(sessions)) :
         FollowUpsOf(sessions)[i].highlights = FollowUpsOf(LastOp.before)[i].highlights

====
